---- MODULE Spec2Model ----
(***************************************************************************)
(* A model of the design-token exporter in src/src/common/generateCSS.ts:  *)
(* the identifier derivations (kebab, toCssVarName), the alias resolver    *)
(* (resolveAliasChainToPrimitive), the value formatter (formatValue), the  *)
(* section emitters and the assembler (generateCSS).                       *)
(*                                                                         *)
(* Text is modelled at two levels.  Names are sequences of one-character   *)
(* strings, so that the regular-expression rewrites of the derivations     *)
(* are computed character by character.  A document is a sequence of       *)
(* lines, each line a record naming its kind (comment, selector, closing   *)
(* brace, blank, declaration) with the derived name and rendered value.    *)
(***************************************************************************)
EXTENDS Integers, Sequences, FiniteSets, TLC

VARIABLES
    pc,          \* which operation runs next / has completed
    name,        \* identifier derivation: the input name
    derived,     \* identifier derivation: the derived name
    varById,     \* resolver: the id -> variable index
    modeId,      \* resolver: the requested mode ("" models undefined)
    start,       \* resolver: the value the outermost call was given
    value,       \* resolver: the value of the current (innermost) call
    seen,        \* resolver: the shared visited set
    depth,       \* resolver: the depth argument of the current call
    lookups,     \* resolver: how many varById.get calls were made so far
    resolved,    \* resolver: the returned value
    payload,     \* generateCSS: the payload argument
    options,     \* generateCSS: the options argument
    result,      \* generateCSS: the returned GeneratedCSSFiles (or a raise)
    clock,       \* generateCSS, appendHeader: the time last read (new Date())
    content,     \* appendHeader: the content argument, as lines
    document,    \* appendHeader: the returned text, as lines
    data,        \* App: the data state (<<>> models null, <<p>> the payload p)
    selectedCollections, \* App: the selectedCollections state (id -> checked)
    cssOutput,   \* App: the cssOutput state
    updates,     \* App: the state updates queued for the next render
    effectPending \* App: the generation effect is scheduled and has not run

vars == <<pc, name, derived, varById, modeId, start, value, seen, depth,
          lookups, resolved, payload, options, result, clock, content, document,
          data, selectedCollections, cssOutput, updates, effectPending>>

(***************************************************************************)
(* Characters                                                              *)
(***************************************************************************)
UpperLetters == <<"A","B","C","D","E","F","G","H","I","J","K","L","M",
                  "N","O","P","Q","R","S","T","U","V","W","X","Y","Z">>
LowerLetters == <<"a","b","c","d","e","f","g","h","i","j","k","l","m",
                  "n","o","p","q","r","s","t","u","v","w","x","y","z">>
Digits == {"0","1","2","3","4","5","6","7","8","9"}

Range(s) == {s[i] : i \in DOMAIN s}

IsUpper(c) == c \in Range(UpperLetters)
IsLower(c) == c \in Range(LowerLetters)

\* String.prototype.toLowerCase on one (ASCII) character.
toLowerChar(c) ==
    IF IsUpper(c)
    THEN LowerLetters[CHOOSE i \in DOMAIN UpperLetters : UpperLetters[i] = c]
    ELSE c

toLowerCase(s) == [i \in DOMAIN s |-> toLowerChar(s[i])]

\* The class [\/\s] of the derivations' first rewrite.
SlashOrSpace == {"/", " ", "\t"}

\* The class [A-Za-z0-9_-] that toCssVarName keeps.
VarNameChars == Range(UpperLetters) \cup Range(LowerLetters) \cup Digits \cup {"_", "-"}

(***************************************************************************)
(* Regular-expression rewrites on character sequences                      *)
(***************************************************************************)
RECURSIVE DropRun(_, _, _)
\* s without its longest prefix of characters c with (c \in class) = inside.
DropRun(s, class, inside) ==
    IF s # <<>> /\ ((Head(s) \in class) = inside)
    THEN DropRun(Tail(s), class, inside)
    ELSE s

RECURSIVE ReplaceRuns(_, _, _, _)
\* s.replace(/[class]+/g, rep), or /[^class]+/g when inside is FALSE.
ReplaceRuns(s, class, inside, rep) ==
    IF s = <<>> THEN <<>>
    ELSE IF (Head(s) \in class) = inside
         THEN rep \o ReplaceRuns(DropRun(s, class, inside), class, inside, rep)
         ELSE <<Head(s)>> \o ReplaceRuns(Tail(s), class, inside, rep)

RECURSIVE HyphenBeforeUpper(_)
\* s.replace(/([A-Z])/g, "-$1")
HyphenBeforeUpper(s) ==
    IF s = <<>> THEN <<>>
    ELSE (IF IsUpper(Head(s)) THEN <<"-", Head(s)>> ELSE <<Head(s)>>)
         \o HyphenBeforeUpper(Tail(s))

RECURSIVE DropTrailingHyphens(_)
DropTrailingHyphens(s) ==
    IF s # <<>> /\ s[Len(s)] = "-"
    THEN DropTrailingHyphens(SubSeq(s, 1, Len(s) - 1))
    ELSE s

\* s.replace(/^-+|-+$/g, "")
TrimHyphens(s) == DropTrailingHyphens(DropRun(s, {"-"}, TRUE))

RECURSIVE CollapseHyphenPairs(_)
\* s.replace(/--/g, "-"): every pair of hyphens becomes one hyphen, so a run of
\* three hyphens leaves two.
CollapseHyphenPairs(s) ==
    IF Len(s) < 2 THEN s
    ELSE IF s[1] = "-" /\ s[2] = "-"
         THEN <<"-">> \o CollapseHyphenPairs(SubSeq(s, 3, Len(s)))
         ELSE <<s[1]>> \o CollapseHyphenPairs(Tail(s))

\* s.replace(/--+/g, "-"): a run of two or more hyphens becomes one hyphen and
\* a single hyphen is kept, so every run of hyphens becomes one hyphen.
CollapseHyphens(s) == ReplaceRuns(s, {"-"}, TRUE, <<"-">>)

(***************************************************************************)
(* Identifier derivations                                                  *)
(***************************************************************************)
\* generateCSS.ts kebab: the strict derivation.
kebab(n) ==
    TrimHyphens(
        toLowerCase(
            CollapseHyphens(
                HyphenBeforeUpper(
                    ReplaceRuns(n, SlashOrSpace, TRUE, <<"-">>)))))

\* generateCSS.ts toCssVarName: the permissive derivation.
toCssVarName(n) ==
    IF n = <<>> THEN <<>>
    ELSE TrimHyphens(
             CollapseHyphens(
                 ReplaceRuns(
                     ReplaceRuns(n, SlashOrSpace, TRUE, <<"-">>),
                     VarNameChars, FALSE, <<"-">>)))

(***************************************************************************)
(* Values, variables and modes                                             *)
(*                                                                         *)
(* A value of valuesByMode is a record: t is its JavaScript shape          *)
(* ("undefined", "alias", "number", "string", "color"), id the alias'      *)
(* target id, n a number in hundredths, s a string's characters.  Ids are  *)
(* positive integers; 0 models an absent id.                               *)
(***************************************************************************)
Undefined == [t |-> "undefined", id |-> 0, n |-> 0, s |-> <<>>]
Alias(i)  == [t |-> "alias", id |-> i, n |-> 0, s |-> <<>>]
Num(h)    == [t |-> "number", id |-> 0, n |-> h, s |-> <<>>]
Str(cs)   == [t |-> "string", id |-> 0, n |-> 0, s |-> cs]
Color(a)  == [t |-> "color", id |-> 0, n |-> a, s |-> <<>>]

\* isAlias: an object of type VARIABLE_ALIAS with a string id.
isAlias(v) == v.t = "alias"

\* One entry of a valuesByMode record, in insertion order.
Entry(m, v) == [mode |-> m, val |-> v]

\* typeof valuesByMode?.[m] !== "undefined"
HasModeValue(vbm, m) ==
    \E i \in DOMAIN vbm : vbm[i].mode = m /\ vbm[i].val # Undefined

\* valuesByMode[m]
ModeValue(vbm, m) ==
    IF \E i \in DOMAIN vbm : vbm[i].mode = m
    THEN vbm[CHOOSE i \in DOMAIN vbm : vbm[i].mode = m].val
    ELSE Undefined

\* Object.values(valuesByMode).find(v => typeof v !== "undefined")
FirstDefined(vbm) ==
    IF \E i \in DOMAIN vbm : vbm[i].val # Undefined
    THEN vbm[CHOOSE i \in DOMAIN vbm :
                 /\ vbm[i].val # Undefined
                 /\ \A j \in 1..(i - 1) : vbm[j].val = Undefined].val
    ELSE Undefined

Variable(i, nm, ty, vbm, coll) ==
    [id |-> i, name |-> nm, resolvedType |-> ty, valuesByMode |-> vbm,
     variableCollectionId |-> coll]

\* for (const v of variables) if (v?.id) varById.set(v.id, v): a later variable
\* with the same id replaces an earlier one.
BuildVarById(variables) ==
    [i \in {variables[k].id : k \in DOMAIN variables} \ {0} |->
        variables[CHOOSE k \in DOMAIN variables :
                      /\ variables[k].id = i
                      /\ \A j \in (k + 1)..Len(variables) : variables[j].id # i]]

(***************************************************************************)
(* Alias resolution: resolveAliasChainToPrimitive                          *)
(***************************************************************************)
\* The recursion depth past which the resolver gives up.
DepthCap == 20

\* A resolver without a depth cap.
DepthNeverExceeded(d) == FALSE

\* if (depth > 20) return value;
DepthExceeded(d) == d > DepthCap

\* The result of a call that throws: target.id read on an undefined target is
\* a TypeError, which unwinds every caller up to generateCSS.
Thrown == [t |-> "thrown", id |-> 0, n |-> 0, s |-> <<>>]

\* The guard on a missing target left out.
TargetMissingUnchecked(v, vb) == FALSE

\* const target = varById.get(value.id); if (!target) return value;
TargetMissing(v, vb) == v.id \notin DOMAIN vb

\* The cycle check left out.
AlreadySeenNever(target, sn) == FALSE

\* if (target.id && seen.has(target.id)) return value;
AlreadySeen(target, sn) == target.id # 0 /\ target.id \in sn

\* The requested mode ignored: always the first defined value.
SelectFirstValue(target, m) == FirstDefined(target.valuesByMode)

\* The value the next call resolves: the target's value for modeId when modeId
\* is given and defined on the target, else its first defined value.
SelectModeValue(target, m) ==
    IF m # "" /\ HasModeValue(target.valuesByMode, m)
    THEN ModeValue(target.valuesByMode, m)
    ELSE FirstDefined(target.valuesByMode)

\* One call of the resolver up to its return or its recursive call: ret says
\* whether it returns val, else the arguments of the recursive call; got counts
\* the varById.get it made.  Past the guard on a missing target, reading
\* target.id of an undefined target throws.
ResolveStep(v, m, vb, sn, d) ==
    IF ~isAlias(v) THEN [ret |-> TRUE, val |-> v, seen |-> sn, depth |-> d, got |-> 0]
    ELSE IF DepthExceeded(d) THEN [ret |-> TRUE, val |-> v, seen |-> sn, depth |-> d, got |-> 0]
    ELSE IF TargetMissing(v, vb) THEN [ret |-> TRUE, val |-> v, seen |-> sn, depth |-> d, got |-> 1]
    ELSE IF v.id \notin DOMAIN vb THEN [ret |-> TRUE, val |-> Thrown, seen |-> sn, depth |-> d, got |-> 1]
    ELSE IF AlreadySeen(vb[v.id], sn) THEN [ret |-> TRUE, val |-> v, seen |-> sn, depth |-> d, got |-> 1]
    ELSE [ret |-> FALSE,
          val |-> SelectModeValue(vb[v.id], m),
          seen |-> IF vb[v.id].id # 0 THEN sn \cup {vb[v.id].id} ELSE sn,
          depth |-> d + 1,
          got |-> 1]

RECURSIVE resolveFrom(_, _, _, _, _)
resolveFrom(v, m, vb, sn, d) ==
    LET st == ResolveStep(v, m, vb, sn, d)
    IN  IF st.ret THEN st.val ELSE resolveFrom(st.val, m, vb, st.seen, st.depth)

\* resolveAliasChainToPrimitive(value, modeId, varById) with the default
\* seen = new Set() and depth = 0.
resolveAliasChainToPrimitive(v, m, vb) == resolveFrom(v, m, vb, {}, 0)

(***************************************************************************)
(* Rendered text                                                           *)
(*                                                                         *)
(* A rendered value is a record: t is "var" (var(--name)), "number" (n in  *)
(* hundredths followed by unit), "rgba" (n the alpha in hundredths) or     *)
(* "text" (the characters of name).  A line is a record of its kind k, a   *)
(* name (comment text, mode name, property name) and a rendered value.     *)
(***************************************************************************)
RNone         == [t |-> "none", name |-> <<>>, n |-> 0, unit |-> ""]
RVar(nm)      == [t |-> "var", name |-> nm, n |-> 0, unit |-> ""]
RNumber(h, u) == [t |-> "number", name |-> <<>>, n |-> h, unit |-> u]
RRgba(a)      == [t |-> "rgba", name |-> <<>>, n |-> a, unit |-> ""]
RText(cs)     == [t |-> "text", name |-> cs, n |-> 0, unit |-> ""]
\* In place of a value whose computation threw.
RThrown       == [t |-> "thrown", name |-> <<>>, n |-> 0, unit |-> ""]

Line(kind, nm, v) == [k |-> kind, name |-> nm, val |-> v]
LComment(nm)  == Line("comment", nm, RNone)      \* /* nm */
LRoot         == Line("root", <<>>, RNone)       \* :root {
LMode(nm)     == Line("mode", nm, RNone)         \* [data-mode="nm"] {
LClose        == Line("close", <<>>, RNone)      \* }
LBlank        == Line("blank", <<>>, RNone)      \* an empty line
LDecl(nm, v)  == Line("decl", nm, v)             \*   --nm: v;

\* Math.round(n * 10) / 10 on a number given in hundredths: half rounds up.
Round1(h) == 10 * ((h + 5) \div 10)

\* to1Smart and to1Fixed differ only in how an integer is printed ("2" and
\* "2.0"); both print the number rounded to one decimal.
to1Smart(h) == Round1(h)
to1Fixed(h) == Round1(h)

\* rgbaFromColor: the alpha channel through to1Fixed (the three colour
\* channels are each scaled and rounded on their own and are not modelled).
rgbaFromColor(raw) == RRgba(to1Fixed(raw.n))

NUMBER_LIKE_TYPES ==
    {"NUMBER","FLOAT","INT","SPACING","SIZE","DIMENSION","RADIUS","BORDER_WIDTH",
     "LINE_HEIGHT","LETTER_SPACING","OPACITY","Z_INDEX","FONT_SIZE","FONT_WEIGHT"}

\* The text of a variable id, as toCssVarName(raw.id) reads it.
IdText(i) == <<"I", "D", ":", ToString(i % 10)>>

\* for (const v of variables) if (v.id) idToName.set(v.id, v.name)
BuildIdToName(variables) ==
    [i \in {variables[k].id : k \in DOMAIN variables} \ {0} |->
        variables[CHOOSE k \in DOMAIN variables :
                      /\ variables[k].id = i
                      /\ \A j \in (k + 1)..Len(variables) : variables[j].id # i].name]

\* String(raw)
StringOf(raw) ==
    CASE raw.t = "string" -> raw.s
      [] raw.t = "undefined" -> <<"u","n","d","e","f","i","n","e","d">>
      [] OTHER -> <<"[","o","b","j","e","c","t","]">>

\* var(--<permissive name of the alias' target, or of its raw id>)
AliasRef(raw, idToName) ==
    RVar(toCssVarName(IF raw.id \in DOMAIN idToName THEN idToName[raw.id]
                      ELSE IdText(raw.id)))

\* formatValue.  A string value is never numeric here (Number(raw) is NaN).
formatValue(raw, resolvedType, numberUnit, preferTokenRefs, idToName) ==
    IF raw = Thrown THEN RThrown
    ELSE IF isAlias(raw) THEN AliasRef(raw, idToName)
    ELSE IF resolvedType = "COLOR" /\ raw.t = "color" THEN rgbaFromColor(raw)
    ELSE IF (resolvedType \in NUMBER_LIKE_TYPES \/ raw.t = "number") /\ raw.t = "number"
         THEN IF numberUnit = "" \/ numberUnit = "none"
              THEN RNumber(raw.n, "")
              ELSE RNumber(to1Smart(raw.n), numberUnit)
    ELSE RText(StringOf(raw))

(***************************************************************************)
(* Sequence helpers                                                        *)
(***************************************************************************)
RECURSIVE Pick(_, _, _)
\* The elements of s at the indices of I that are >= i, in order (a filter).
Pick(s, I, i) ==
    IF i > Len(s) THEN <<>>
    ELSE (IF i \in I THEN <<s[i]>> ELSE <<>>) \o Pick(s, I, i + 1)

RECURSIVE Concat(_)
\* The concatenation of a sequence of sequences (push(...section)).
Concat(ss) == IF ss = <<>> THEN <<>> ELSE Head(ss) \o Concat(Tail(ss))

\* w occurs in s at position i.
HasAt(s, w, i) == i + Len(w) - 1 <= Len(s) /\ SubSeq(s, i, i + Len(w) - 1) = w

\* /w1.*w2/ matches s.
MatchesThen(s, w1, w2) ==
    \E i \in DOMAIN s : \E j \in DOMAIN s :
        HasAt(s, w1, i) /\ HasAt(s, w2, j) /\ j >= i + Len(w1)

(***************************************************************************)
(* Weight names                                                            *)
(***************************************************************************)
\* The weight labels weightNameToNumber looks for, as characters.
WeightWord ==
    [thin |-> <<"t","h","i","n">>,
     extralight |-> <<"e","x","t","r","a","l","i","g","h","t">>,
     ultralight |-> <<"u","l","t","r","a","l","i","g","h","t">>,
     light |-> <<"l","i","g","h","t">>,
     regular |-> <<"r","e","g","u","l","a","r">>,
     normal |-> <<"n","o","r","m","a","l">>,
     medium |-> <<"m","e","d","i","u","m">>,
     semibold |-> <<"s","e","m","i","b","o","l","d">>,
     demi |-> <<"d","e","m","i">>,
     bold |-> <<"b","o","l","d">>,
     extrabold |-> <<"e","x","t","r","a","b","o","l","d">>,
     ultrabold |-> <<"u","l","t","r","a","b","o","l","d">>,
     black |-> <<"b","l","a","c","k">>,
     heavy |-> <<"h","e","a","v","y">>]

\* The property names of a text style's declarations.
CssProperty ==
    [fontFamily |-> <<"f","o","n","t","-","f","a","m","i","l","y">>,
     fontWeight |-> <<"f","o","n","t","-","w","e","i","g","h","t">>,
     fontSize |-> <<"f","o","n","t","-","s","i","z","e">>,
     lineHeight |-> <<"l","i","n","e","-","h","e","i","g","h","t">>,
     letterSpacing |-> <<"l","e","t","t","e","r","-","s","p","a","c","i","n","g">>,
     textTransform |-> <<"t","e","x","t","-","t","r","a","n","s","f","o","r","m">>,
     textDecoration |-> <<"t","e","x","t","-","d","e","c","o","r","a","t","i","o","n">>]

\* Other words of the source: those of the name tests, the fallback comment
\* of a variables section, the comments of the style sections (their first
\* words), the suffix of an opacity token and the two family variables (the
\* text after "--").
Word ==
    [font |-> <<"f","o","n","t">>,
     weight |-> <<"w","e","i","g","h","t">>,
     family |-> <<"f","a","m","i","l","y">>,
     primary |-> <<"p","r","i","m","a","r","y">>,
     secondary |-> <<"s","e","c","o","n","d","a","r","y">>,
     normal |-> <<"n","o","r","m","a","l">>,
     variables |-> <<"V","a","r","i","a","b","l","e","s">>,
     opacitySuffix |-> <<"-","o","p","a","c","i","t","y">>,
     fontFamilyPrimary |-> <<"f","o","n","t","-","f","a","m","i","l","y","-","p","r","i","m","a","r","y">>,
     fontFamilySecondary |-> <<"f","o","n","t","-","f","a","m","i","l","y","-","s","e","c","o","n","d","a","r","y">>,
     textStyles |-> <<"T","e","x","t"," ","S","t","y","l","e","s">>,
     paintStyles |-> <<"P","a","i","n","t"," ","S","t","y","l","e","s">>,
     effectStyles |-> <<"E","f","f","e","c","t"," ","S","t","y","l","e","s">>]

\* /font.*weight|weight.*font/i.test(name)
LooksLikeFontWeight(nm) ==
    \/ MatchesThen(toLowerCase(nm), Word.font, Word.weight)
    \/ MatchesThen(toLowerCase(nm), Word.weight, Word.font)

\* name.split(/[\/\\]/).pop() || name
LastSegment(nm) ==
    LET cuts == {i \in DOMAIN nm : nm[i] \in {"/", "\\"}}
        from == IF cuts = {} THEN 1 ELSE 1 + CHOOSE i \in cuts : \A j \in cuts : j <= i
        last == SubSeq(nm, from, Len(nm))
    IN  IF last = <<>> THEN nm ELSE last

\* normalizeWeightKey: trim, lower-case, drop every run of [\s_-]; the final
\* replace(/semi\s*bold/, "semibold") then finds no whitespace left to drop.
normalizeWeightKey(nm) ==
    ReplaceRuns(toLowerCase(nm), {" ", "\t", "_", "-"}, TRUE, <<>>)

labelSet ==
    {<<"t","h","i","n">>,
     <<"e","x","t","r","a","l","i","g","h","t">>,
     <<"u","l","t","r","a","l","i","g","h","t">>,
     <<"l","i","g","h","t">>,
     <<"r","e","g","u","l","a","r">>,
     <<"n","o","r","m","a","l">>,
     <<"m","e","d","i","u","m">>,
     <<"s","e","m","i","b","o","l","d">>,
     <<"d","e","m","i","b","o","l","d">>,
     <<"b","o","l","d">>,
     <<"e","x","t","r","a","b","o","l","d">>,
     <<"u","l","t","r","a","b","o","l","d">>,
     <<"b","l","a","c","k">>,
     <<"h","e","a","v","y">>}

\* isWeightVarName of emitVariablesSection.
isWeightVarName(nm) ==
    LooksLikeFontWeight(nm)
    \/ normalizeWeightKey(toLowerCase(LastSegment(nm))) \in labelSet

(***************************************************************************)
(* The variables emitter: emitVariablesSection                             *)
(***************************************************************************)
Mode(i, nm) == [modeId |-> i, name |-> nm]
Collection(i, nm, ms) == [id |-> i, name |-> nm, modes |-> ms]

\* opt.selectedCollectionIds?.length ? new Set(opt.selectedCollectionIds) : null
\* (on is FALSE for null).
AllowedSet(opt) ==
    IF opt.selectedCollectionIds.defined /\ Len(opt.selectedCollectionIds.ids) > 0
    THEN [on |-> TRUE, ids |-> Range(opt.selectedCollectionIds.ids)]
    ELSE [on |-> FALSE, ids |-> {}]

\* v.variableCollectionId || "unknown"
CollectionKey(v) ==
    IF v.variableCollectionId = "" THEN "unknown" ELSE v.variableCollectionId

\* Object.keys(byCollection): the keys in order of first appearance.
ByCollectionKeys(variables) ==
    LET firsts == {k \in DOMAIN variables :
                      \A j \in 1..(k - 1) :
                          CollectionKey(variables[j]) # CollectionKey(variables[k])}
        picked == Pick(variables, firsts, 1)
    IN  [i \in DOMAIN picked |-> CollectionKey(picked[i])]

\* byCollection[key]
VarsOfCollection(variables, key) ==
    Pick(variables, {k \in DOMAIN variables : CollectionKey(variables[k]) = key}, 1)

\* collections.forEach(c => collById[c.id] = c): is there a collById[id]?
HasCollection(collections, id) == \E k \in DOMAIN collections : collections[k].id = id

\* collById[id]: the last collection of that id.
CollById(collections, id) ==
    collections[CHOOSE k \in DOMAIN collections :
                    /\ collections[k].id = id
                    /\ \A j \in (k + 1)..Len(collections) : collections[j].id # id]

\* The mode of the first defined entry of valuesByMode ("" when there is none).
FirstDefinedKey(vbm) ==
    IF \E i \in DOMAIN vbm : vbm[i].val # Undefined
    THEN vbm[CHOOSE i \in DOMAIN vbm :
                 /\ vbm[i].val # Undefined
                 /\ \A j \in 1..(i - 1) : vbm[j].val = Undefined].mode
    ELSE ""

\* The resolution of a string alias whatever preferTokenRefs says.
maybeResolveAlways(val, resolvedType, m, opt, vb) ==
    IF (resolvedType = "STRING"
        \/ (resolvedType \notin NUMBER_LIKE_TYPES /\ resolvedType # "COLOR"))
       /\ isAlias(val)
       /\ ~isAlias(resolveAliasChainToPrimitive(val, m, vb))
    THEN resolveAliasChainToPrimitive(val, m, vb)
    ELSE val

\* maybeResolveForString
maybeResolveForString(val, resolvedType, m, opt, vb) ==
    IF opt.preferTokenRefs THEN val
    ELSE IF (resolvedType = "STRING"
             \/ (resolvedType \notin NUMBER_LIKE_TYPES /\ resolvedType # "COLOR"))
            /\ isAlias(val)
            /\ ~isAlias(resolveAliasChainToPrimitive(val, m, vb))
         THEN resolveAliasChainToPrimitive(val, m, vb)
         ELSE val

\* The unit of a variable's declaration.
UnitOf(v, defaultUnit) ==
    IF v.resolvedType = "COLOR" \/ isWeightVarName(v.name) THEN "none" ELSE defaultUnit

\* `  ${cssVar}: ${formatValue(outVal, ...)};` for variable v and its value val
\* read under mode key m.
DeclarationOf(v, val, m, opt, idToName, vb) ==
    LDecl(toCssVarName(v.name),
          formatValue(maybeResolveForString(val, v.resolvedType, m, opt, vb),
                      v.resolvedType,
                      UnitOf(v, IF opt.numberUnit = "undefined" THEN "px" ELSE opt.numberUnit),
                      opt.preferTokenRefs, idToName))

\* The single-block branch: the value (and the mode key) it takes for v under
\* targetModeId: that mode's value when defined, else the first defined entry.
RootModeKey(v, targetModeId) ==
    IF targetModeId # "" /\ HasModeValue(v.valuesByMode, targetModeId)
    THEN targetModeId
    ELSE FirstDefinedKey(v.valuesByMode)

RootModeValue(v, targetModeId) ==
    IF targetModeId # "" /\ HasModeValue(v.valuesByMode, targetModeId)
    THEN ModeValue(v.valuesByMode, targetModeId)
    ELSE FirstDefined(v.valuesByMode)

\* rootLines of the single-block branch.
RootLines(varsOfColl, targetModeId, opt, idToName, vb) ==
    LET kept == Pick(varsOfColl,
                     {k \in DOMAIN varsOfColl :
                         RootModeValue(varsOfColl[k], targetModeId) # Undefined}, 1)
    IN  [i \in DOMAIN kept |->
            DeclarationOf(kept[i], RootModeValue(kept[i], targetModeId),
                          RootModeKey(kept[i], targetModeId), opt, idToName, vb)]

\* modeLines of the per-mode branch: only the variables with a value for m.
ModeLines(varsOfColl, m, opt, idToName, vb) ==
    LET kept == Pick(varsOfColl,
                     {k \in DOMAIN varsOfColl :
                         ModeValue(varsOfColl[k].valuesByMode, m.modeId) # Undefined}, 1)
    IN  [i \in DOMAIN kept |->
            DeclarationOf(kept[i], ModeValue(kept[i].valuesByMode, m.modeId),
                          m.modeId, opt, idToName, vb)]

RECURSIVE ModeBlocks(_, _, _, _, _, _, _)
\* The per-mode branch from mode index i on; first says whether section is
\* still empty (the first printed block carries the comment, the others a
\* blank line).
ModeBlocks(modes, i, first, comment, varsOfColl, opt, ctx) ==
    IF i > Len(modes) THEN <<>>
    ELSE LET lines == ModeLines(varsOfColl, modes[i], opt, ctx.idToName, ctx.varById)
         IN  IF lines = <<>>
             THEN ModeBlocks(modes, i + 1, first, comment, varsOfColl, opt, ctx)
             ELSE <<IF first THEN LComment(comment) ELSE LBlank, LMode(modes[i].name)>>
                  \o lines \o <<LClose, LBlank>>
                  \o ModeBlocks(modes, i + 1, FALSE, comment, varsOfColl, opt, ctx)

\* The section of one byCollection entry.
SectionOf(payload_, opt, key, ctx) ==
    LET varsOfColl == VarsOfCollection(payload_.variables, key)
        has == HasCollection(payload_.collections, key)
        coll == CollById(payload_.collections, key)
        modes == IF has /\ Len(coll.modes) > 0 THEN coll.modes ELSE payload_.variableModes
        comment == IF has THEN coll.name ELSE Word.variables
    IN  IF Len(modes) <= 1
        THEN LET rootLines == RootLines(varsOfColl,
                                        IF Len(modes) = 1 THEN modes[1].modeId ELSE "",
                                        opt, ctx.idToName, ctx.varById)
             IN  IF rootLines = <<>> THEN <<>>
                 ELSE <<LComment(comment), LRoot>> \o rootLines \o <<LClose, LBlank>>
        ELSE ModeBlocks(modes, 1, TRUE, comment, varsOfColl, opt, ctx)

\* if (allowedSet && !allowedSet.has(collectionId)
\*     && !(collectionId === "unknown" && includeUnknowns)) continue;
SectionIncluded(payload_, opt, key) ==
    LET allowed == AllowedSet(opt)
        keys == ByCollectionKeys(payload_.variables)
        onlyUnknowns == Len(keys) = 1 /\ keys[1] = "unknown"
        includeUnknowns == onlyUnknowns /\ allowed.on
    IN  ~(allowed.on /\ key \notin allowed.ids /\ ~(key = "unknown" /\ includeUnknowns))

\* emitVariablesSection: the lines of chunks.join("\n").
emitVariablesSection(payload_, opt) ==
    IF ~opt.includeVariables \/ payload_.variables = <<>> THEN <<>>
    ELSE LET ctx == [idToName |-> BuildIdToName(payload_.variables),
                     varById |-> BuildVarById(payload_.variables)]
             keys == ByCollectionKeys(payload_.variables)
             kept == Pick(keys, {k \in DOMAIN keys : SectionIncluded(payload_, opt, keys[k])}, 1)
         IN  Concat([i \in DOMAIN kept |-> SectionOf(payload_, opt, kept[i], ctx)])

(***************************************************************************)
(* Style helpers                                                           *)
(***************************************************************************)
\* w occurs in s (String.prototype.includes).
Includes(s, w) == \E i \in 1..(Len(s) + 1) : HasAt(s, w, i)

\* fullName.includes('/') ? fullName.split('/')[1] : fullName
TokenName(fullName) ==
    IF "/" \notin Range(fullName) THEN fullName
    ELSE LET i == CHOOSE k \in DOMAIN fullName :
                      fullName[k] = "/" /\ \A j \in 1..(k - 1) : fullName[j] # "/"
             rest == SubSeq(fullName, i + 1, Len(fullName))
         IN  IF "/" \notin Range(rest) THEN rest
             ELSE SubSeq(rest, 1,
                         (CHOOSE k \in DOMAIN rest :
                              rest[k] = "/" /\ \A j \in 1..(k - 1) : rest[j] # "/") - 1)

\* A bound variable first, then an alias on the value, else the literal.
RefOr(bound, val, idToName, literal) ==
    IF isAlias(bound) THEN AliasRef(bound, idToName)
    ELSE IF isAlias(val) THEN AliasRef(val, idToName)
    ELSE literal

\* /[^a-z0-9-]/i.test(f) ? `"${f}"` : f  (undefined for an absent or empty f)
quoteFontFamily(f) ==
    IF f.t # "string" \/ f.s = <<>> THEN Undefined
    ELSE IF \E i \in DOMAIN f.s :
                f.s[i] \notin (Range(UpperLetters) \cup Range(LowerLetters) \cup Digits \cup {"-"})
         THEN Str(<<"\"">> \o f.s \o <<"\"">>)
         ELSE f

\* s.split(",")[0].trim().replace(/^["']|["']$/g, "").toLowerCase()
normalizeFamilyName(f) ==
    IF f.t # "string" \/ f.s = <<>> THEN <<>>
    ELSE LET First(x) ==
                 IF "," \notin Range(x) THEN x
                 ELSE SubSeq(x, 1, (CHOOSE i \in DOMAIN x :
                                        x[i] = "," /\ \A j \in 1..(i - 1) : x[j] # ",") - 1)
             RECURSIVE DropTrailingSpace(_)
             DropTrailingSpace(x) ==
                 IF x # <<>> /\ x[Len(x)] \in {" ", "\t"}
                 THEN DropTrailingSpace(SubSeq(x, 1, Len(x) - 1)) ELSE x
             NoLead(x) == IF x # <<>> /\ x[1] \in {"\"", "'"} THEN Tail(x) ELSE x
             NoTrail(x) == IF x # <<>> /\ x[Len(x)] \in {"\"", "'"}
                           THEN SubSeq(x, 1, Len(x) - 1) ELSE x
         IN  toLowerCase(NoTrail(NoLead(
                 DropTrailingSpace(DropRun(First(f.s), {" ", "\t"}, TRUE)))))

\* weightNameToNumber: 0 models undefined.
weightNameToNumber(w) ==
    IF w = <<>> THEN 0
    ELSE LET t == ReplaceRuns(toLowerCase(w), {" ", "\t"}, TRUE, <<>>)
         IN  IF Includes(t, WeightWord.thin) THEN 100
             ELSE IF Includes(t, WeightWord.extralight) \/ Includes(t, WeightWord.ultralight) THEN 200
             ELSE IF Includes(t, WeightWord.light) THEN 300
             ELSE IF Includes(t, WeightWord.regular) \/ Includes(t, WeightWord.normal) THEN 400
             ELSE IF Includes(t, WeightWord.medium) THEN 500
             ELSE IF Includes(t, WeightWord.semibold) \/ Includes(t, WeightWord.demi) THEN 600
             ELSE IF Includes(t, WeightWord.bold) THEN 700
             ELSE IF Includes(t, WeightWord.extrabold) \/ Includes(t, WeightWord.ultrabold) THEN 800
             ELSE IF Includes(t, WeightWord.black) \/ Includes(t, WeightWord.heavy) THEN 900
             ELSE 0

\* A Map built by a sequence of set(key, val) calls: has and get.
MapHas(ops, key) == \E i \in DOMAIN ops : ops[i].key = key
MapGet(ops, key) ==
    ops[CHOOSE i \in DOMAIN ops :
            ops[i].key = key /\ \A j \in (i + 1)..Len(ops) : ops[j].key # key].val
MapKeys(ops) == {ops[i].key : i \in DOMAIN ops}
MapSet(key, v) == [key |-> key, val |-> v]

\* buildWeightVarIndex: the set calls, in order.  The value is the kebab name
\* of the variable (the text after "--").
buildWeightVarIndex(variables) ==
    Concat([k \in DOMAIN variables |->
        LET v == variables[k]
            key == normalizeWeightKey(LastSegment(v.name))
        IN  IF v.name = <<>> THEN <<>>
            ELSE IF (LooksLikeFontWeight(v.name) \/ key \in labelSet)
                    /\ v.resolvedType \in {"NUMBER", "FLOAT", "INT"}
                 THEN <<MapSet(key, kebab(v.name))>>
                      \o (IF key = WeightWord.regular THEN <<MapSet(WeightWord.normal, kebab(v.name))>> ELSE <<>>)
                 ELSE <<>>])

(***************************************************************************)
(* The font-family index: buildFamilyToVarMap                              *)
(***************************************************************************)

\* /font[-\s_]*family.*<role>/i.test(n)
MatchesFamilyRole(n, role) ==
    LET l == toLowerCase(n)
    IN  \E i \in DOMAIN l : \E j \in DOMAIN l : \E k \in DOMAIN l :
            /\ HasAt(l, Word.font, i)
            /\ j >= i + Len(Word.font)
            /\ \A x \in (i + Len(Word.font))..(j - 1) : l[x] \in {"-", " ", "\t", "_"}
            /\ HasAt(l, Word.family, j)
            /\ k >= j + Len(Word.family)
            /\ HasAt(l, role, k)

\* The modes of all collections, deduplicated by `${modeId}::${name}`, or
\* variableModes when the collections have none.
AllModes(payload_) ==
    LET ms == Concat([k \in DOMAIN payload_.collections |-> payload_.collections[k].modes])
        uniq == Pick(ms, {k \in DOMAIN ms : \A j \in 1..(k - 1) : ms[j] # ms[k]}, 1)
    IN  IF uniq = <<>> THEN payload_.variableModes ELSE uniq

\* push(raw, modeId, varName): a set call when the chain ends in a string with
\* a non-empty normalized family.  A resolution that threw is kept as a set
\* call with an empty key, which no real call makes.
FamilyPush(raw, m, varName, vb) ==
    LET term == resolveAliasChainToPrimitive(raw, m, vb)
    IN  IF term = Thrown THEN <<MapSet(<<>>, <<>>)>>
        ELSE IF term.t = "string" /\ normalizeFamilyName(term) # <<>>
        THEN <<MapSet(normalizeFamilyName(term), varName)>>
        ELSE <<>>

\* The pushes of one variable for one role.
FamilyPushes(v, modes, varName, vb) ==
    IF modes # <<>>
    THEN Concat([k \in DOMAIN modes |->
            FamilyPush(ModeValue(v.valuesByMode, modes[k].modeId), modes[k].modeId, varName, vb)])
    ELSE FamilyPush(IF v.valuesByMode = <<>> THEN Undefined ELSE v.valuesByMode[1].val,
                    "", varName, vb)

\* buildFamilyToVarMap: the set calls, in order (the value is the text after "--").
buildFamilyToVarMap(payload_) ==
    LET vb == BuildVarById(payload_.variables)
        modes == AllModes(payload_)
    IN  Concat([k \in DOMAIN payload_.variables |->
            LET v == payload_.variables[k]
            IN  IF v.name = <<>> THEN <<>>
                ELSE (IF MatchesFamilyRole(v.name, Word.primary)
                      THEN FamilyPushes(v, modes, Word.fontFamilyPrimary, vb) ELSE <<>>)
                     \o (IF MatchesFamilyRole(v.name, Word.secondary)
                         THEN FamilyPushes(v, modes, Word.fontFamilySecondary, vb) ELSE <<>>)])

(***************************************************************************)
(* The text-style emitter: emitTextStylesSection                           *)
(***************************************************************************)
UnitValue(u, h) == [t |-> u, id |-> 0, n |-> h, s |-> <<>>]

LClass(nm)   == Line("class", nm, RNone)         \* .nm {
LProp(nm, v) == Line("prop", nm, v)              \*   nm: v;

\* quoteFontFamily(s.fontFamily) ?? quoteFontFamily(s.fontName?.family)
LiteralFamily(st) ==
    IF quoteFontFamily(st.fontFamily) # Undefined THEN quoteFontFamily(st.fontFamily)
    ELSE quoteFontFamily(st.fontName.family)

\* The frequency ranking of the normalized families of the text styles: most
\* frequent first, ties in order of first appearance (the sort is stable).
RankedFamilies(textStyles) ==
    LET Ranked(norms) ==
            LET count(f) == Cardinality({k \in DOMAIN norms : norms[k] = f})
                firstAt(f) == CHOOSE k \in DOMAIN norms :
                                  norms[k] = f /\ \A j \in 1..(k - 1) : norms[j] # f
                fams == {norms[k] : k \in DOMAIN norms} \ {<<>>}
                before(f, g) == \/ count(f) > count(g)
                                \/ (count(f) = count(g) /\ firstAt(f) < firstAt(g))
            IN  [r \in 1..Cardinality(fams) |->
                    CHOOSE f \in fams : Cardinality({g \in fams : before(g, f)}) = r - 1]
    IN  Ranked([k \in DOMAIN textStyles |->
                   normalizeFamilyName(LiteralFamily(textStyles[k]))])

\* A fallback that sets both slots without asking whether the family is mapped.
FamilyFallbackUnguarded(ops, textStyles) ==
    IF Cardinality(MapKeys(ops)) >= 2 THEN <<>>
    ELSE LET Added(sorted) ==
                 (IF Len(sorted) >= 1
                  THEN <<MapSet(sorted[1], Word.fontFamilyPrimary)>> ELSE <<>>)
                 \o (IF Len(sorted) >= 2
                     THEN <<MapSet(sorted[2], Word.fontFamilySecondary)>> ELSE <<>>)
         IN  Added(RankedFamilies(textStyles))

\* The frequency fallback: the set calls it adds to the index ops.
FamilyFallback(ops, textStyles) ==
    IF Cardinality(MapKeys(ops)) >= 2 THEN <<>>
    ELSE LET Added(sorted) ==
                 (IF Len(sorted) >= 1 /\ ~MapHas(ops, sorted[1])
                  THEN <<MapSet(sorted[1], Word.fontFamilyPrimary)>> ELSE <<>>)
                 \o (IF Len(sorted) >= 2 /\ ~MapHas(ops, sorted[2])
                     THEN <<MapSet(sorted[2], Word.fontFamilySecondary)>> ELSE <<>>)
         IN  Added(RankedFamilies(textStyles))

\* familyToVar as emitTextStylesSection uses it.
FamilyToVar(payload_) ==
    LET Completed(ops) == ops \o FamilyFallback(ops, payload_.textStyles)
    IN  Completed(buildFamilyToVarMap(payload_))

\* fontFamilyDecl (RNone when there is none).
FontFamilyOf(st, familyToVar, idToName) ==
    LET Decl(lit, norm) ==
            IF isAlias(st.boundVariables.fontFamily)
            THEN AliasRef(st.boundVariables.fontFamily, idToName)
            ELSE IF norm # <<>> /\ MapHas(familyToVar, norm) THEN RVar(MapGet(familyToVar, norm))
            ELSE IF lit # Undefined THEN RText(lit.s)
            ELSE RNone
    IN  Decl(LiteralFamily(st), normalizeFamilyName(LiteralFamily(st)))

\* typeof s.fontWeight === "string" ? s.fontWeight : s.fontName?.style
WeightLabel(st) == IF st.fontWeight.t = "string" THEN st.fontWeight ELSE st.fontName.style

\* fontWeight (RNone when there is none).
FontWeightOf(st, weightVars, idToName) ==
    IF isAlias(st.boundVariables.fontWeight) THEN AliasRef(st.boundVariables.fontWeight, idToName)
    ELSE IF isAlias(st.fontWeight) THEN AliasRef(st.fontWeight, idToName)
    ELSE IF WeightLabel(st).t = "string"
         THEN IF MapHas(weightVars, normalizeWeightKey(WeightLabel(st).s))
              THEN RVar(MapGet(weightVars, normalizeWeightKey(WeightLabel(st).s)))
              ELSE IF weightNameToNumber(WeightLabel(st).s) # 0
                   THEN RNumber(100 * weightNameToNumber(WeightLabel(st).s), "")
                   ELSE RNone
    ELSE IF st.fontWeight.t = "number" THEN RNumber(st.fontWeight.n, "")
    ELSE RNone

\* fontSize
FontSizeOf(st, idToName) ==
    RefOr(st.boundVariables.fontSize, st.fontSize, idToName,
          IF st.fontSize.t = "number" THEN RNumber(to1Smart(st.fontSize.n), "px") ELSE RNone)

\* lineHeightToCss (a line height of 0 or undefined gives nothing)
lineHeightToCss(lh) ==
    IF lh = Undefined \/ lh = Num(0) THEN RNone
    ELSE IF lh.t = "AUTO" THEN RText(Word.normal)
    ELSE IF lh.t = "PERCENT" THEN RNumber(to1Smart(lh.n), "%")
    ELSE IF lh.t = "PIXELS" THEN RNumber(to1Smart(lh.n), "px")
    ELSE IF lh.t = "number" THEN RNumber(to1Smart(lh.n), "")
    ELSE RNone

\* letterSpacingToCss
letterSpacingToCss(ls) ==
    IF ls = Undefined \/ ls = Num(0) THEN RNone
    ELSE IF ls.t = "PERCENT" THEN RNumber(to1Smart(ls.n), "%")
    ELSE IF ls.t = "PIXELS" THEN RNumber(to1Smart(ls.n), "px")
    ELSE IF ls.t = "number" THEN RNumber(to1Smart(ls.n), "px")
    ELSE RNone

\* map[textTransform] ?? textTransform
TextTransformOf(lower) ==
    CASE lower = <<"u","p","p","e","r">> -> <<"u","p","p","e","r","c","a","s","e">>
      [] lower = <<"l","o","w","e","r","c","a","s","e">> -> <<"l","o","w","e","r","c","a","s","e">>
      [] lower = <<"t","i","t","l","e">> -> <<"c","a","p","i","t","a","l","i","z","e">>
      [] OTHER -> lower

\* The declarations of one text style, in the order they are pushed.
TextDeclarations(st, familyToVar, weightVars, idToName) ==
    LET opt(nm, v) == IF v = RNone THEN <<>> ELSE <<LProp(nm, v)>>
        lineHeight == RefOr(st.boundVariables.lineHeight, st.lineHeight, idToName,
                            lineHeightToCss(st.lineHeight))
        letterSpacing == RefOr(st.boundVariables.letterSpacing, st.letterSpacing, idToName,
                               letterSpacingToCss(st.letterSpacing))
        textTransform == toLowerCase(st.textCase)
        textDecoration == toLowerCase(st.textDecoration)
    IN  opt(CssProperty.fontFamily, FontFamilyOf(st, familyToVar, idToName))
        \o opt(CssProperty.fontWeight, FontWeightOf(st, weightVars, idToName))
        \o opt(CssProperty.fontSize, FontSizeOf(st, idToName))
        \o opt(CssProperty.lineHeight, lineHeight)
        \o opt(CssProperty.letterSpacing, letterSpacing)
        \o (IF textTransform # <<>> /\ textTransform # <<"o","r","i","g","i","n","a","l">>
            THEN <<LProp(CssProperty.textTransform, RText(TextTransformOf(textTransform)))>> ELSE <<>>)
        \o (IF textDecoration # <<>> /\ textDecoration # <<"n","o","n","e">>
            THEN <<LProp(CssProperty.textDecoration, RText(textDecoration))>> ELSE <<>>)

\* emitTextStylesSection: the lines of the returned text.
emitTextStylesSection(payload_, opt) ==
    IF ~opt.includeTextStyles \/ payload_.textStyles = <<>> THEN <<>>
    ELSE LET Block(st, decls) ==
                 IF decls = <<>> THEN <<>>
                 ELSE <<LClass(kebab(TokenName(st.name)))>> \o decls \o <<LClose, LBlank>>
             Blocks(idToName, weightVars, familyToVar) ==
                 Concat([k \in DOMAIN payload_.textStyles |->
                     Block(payload_.textStyles[k],
                           TextDeclarations(payload_.textStyles[k], familyToVar,
                                            weightVars, idToName))])
             Section(blocks) ==
                 IF blocks = <<>> THEN <<>> ELSE <<LComment(Word.textStyles)>> \o blocks
         IN  Section(Blocks(BuildIdToName(payload_.variables),
                            buildWeightVarIndex(payload_.variables),
                            FamilyToVar(payload_)))

(***************************************************************************)
(* The paint-style and effect-style emitters                               *)
(***************************************************************************)
\* firstVisible: the index of the first layer whose visible is not false, else
\* 1, and 0 for an empty list.
\* The first layer whatever its visible flag is.
firstLayer(arr) == IF arr = <<>> THEN 0 ELSE 1

firstVisible(arr) ==
    IF arr = <<>> THEN 0
    ELSE IF \E i \in DOMAIN arr : arr[i].visible # "false"
         THEN CHOOSE i \in DOMAIN arr :
                  arr[i].visible # "false" /\ \A j \in 1..(i - 1) : arr[j].visible = "false"
         ELSE 1

\* rgbaFromColor on a colour that may be absent (alpha then prints as 1.0).
ColorLiteral(c) == IF c.t = "color" THEN rgbaFromColor(c) ELSE RRgba(100)

RGradient(parts) == [t |-> "gradient", parts |-> parts]
RShadow(parts, inset) == [t |-> "shadow", parts |-> parts, inset |-> inset]

\* gradientToCss: one part per stop, the colour and, when position is a
\* number, its percentage.
gradientToCss(stops, idToName) ==
    RGradient([k \in DOMAIN stops |->
        [color |-> RefOr(stops[k].boundVariables.color, stops[k].color, idToName,
                         ColorLiteral(stops[k].color)),
         pos |-> IF stops[k].position.t = "number"
                 THEN RNumber(to1Smart(stops[k].position.n * 100), "%") ELSE RNone]])

\* The lines of one paint style.
PaintLines(p, idToName) ==
    LET nm == kebab(TokenName(p.name))
        i == firstVisible(p.paints)
        paint == p.paints[i]
    IN  IF i = 0 THEN <<>>
        ELSE IF paint.type = "SOLID"
        THEN <<LDecl(nm, RefOr(paint.boundVariables.color, paint.color, idToName,
                               ColorLiteral(paint.color)))>>
             \o (IF isAlias(paint.boundVariables.opacity)
                 THEN <<LDecl(nm \o Word.opacitySuffix, AliasRef(paint.boundVariables.opacity, idToName))>>
                 ELSE IF paint.opacity.t = "number" /\ paint.opacity.n # 100
                 THEN <<LDecl(nm \o Word.opacitySuffix, RNumber(to1Smart(paint.opacity.n), ""))>>
                 ELSE IF isAlias(paint.opacity)
                 THEN <<LDecl(nm \o Word.opacitySuffix, AliasRef(paint.opacity, idToName))>>
                 ELSE <<>>)
        ELSE IF paint.type \in {"GRADIENT_LINEAR", "GRADIENT_RADIAL", "GRADIENT_ANGULAR", "GRADIENT_DIAMOND"}
        THEN <<LDecl(nm, gradientToCss(paint.gradientStops, idToName))>>
        ELSE <<>>

\* emitPaintStylesSection
emitPaintStylesSection(payload_, opt) ==
    IF ~opt.includePaintStyles \/ payload_.paintStyles = <<>> THEN <<>>
    ELSE LET idToName == BuildIdToName(payload_.variables)
             lines == Concat([k \in DOMAIN payload_.paintStyles |->
                                 PaintLines(payload_.paintStyles[k], idToName)])
         IN  IF lines = <<>> THEN <<>>
             ELSE <<LComment(Word.paintStyles), LRoot>> \o lines \o <<LClose, LBlank>>

\* A length of an effect: a bound variable, an alias, else `${to1Smart(x ?? 0)}px`.
EffectLength(bound, val, idToName) ==
    RefOr(bound, val, idToName,
          RNumber(to1Smart(IF val.t = "number" THEN val.n ELSE 0), "px"))

\* The lines of one effect style.
EffectLines(e, idToName) ==
    LET nm == kebab(TokenName(e.name))
        i == firstVisible(e.effects)
        eff == e.effects[i]
        bv == eff.boundVariables
    IN  IF i = 0 THEN <<>>
        ELSE IF eff.type \in {"DROP_SHADOW", "INNER_SHADOW"}
        THEN <<LDecl(nm, RShadow(
                  <<EffectLength(bv.offsetX, eff.offsetX, idToName),
                    EffectLength(bv.offsetY, eff.offsetY, idToName),
                    EffectLength(bv.radius, eff.radius, idToName),
                    EffectLength(bv.spread, eff.spread, idToName),
                    RefOr(bv.color, eff.color, idToName,
                          IF eff.color.t = "color" THEN rgbaFromColor(eff.color)
                          ELSE rgbaFromColor(Color(25)))>>,
                  eff.type = "INNER_SHADOW"))>>
        ELSE IF eff.type \in {"LAYER_BLUR", "BACKGROUND_BLUR"}
        THEN <<LDecl(nm, EffectLength(bv.radius, eff.radius, idToName))>>
        ELSE <<>>

\* emitEffectStylesSection
emitEffectStylesSection(payload_, opt) ==
    IF ~opt.includeEffectStyles \/ payload_.effectStyles = <<>> THEN <<>>
    ELSE LET idToName == BuildIdToName(payload_.variables)
             lines == Concat([k \in DOMAIN payload_.effectStyles |->
                                 EffectLines(payload_.effectStyles[k], idToName)])
         IN  IF lines = <<>> THEN <<>>
             ELSE <<LComment(Word.effectStyles), LRoot>> \o lines \o <<LClose, LBlank>>

(***************************************************************************)
(* The assembler: appendHeader and generateCSS                             *)
(***************************************************************************)
LMarker       == Line("marker", <<>>, RNone)     \* /* Auto-generated design tokens */

\* The time written as an ordinary comment of the body.
LTimestampAsComment(t) == Line("comment", <<ToString(t)>>, RNone)

\* /* ${new Date().toISOString()} */ with the clock reading t
LTimestamp(t) == Line("timestamp", <<>>, RNumber(t, ""))
NL == Line("newline", <<>>, RNone)               \* a "\n" of the joined text

RECURSIVE JoinLines(_)
\* lines.join("\n") as tokens: the non-empty lines with a newline between
\* every two consecutive lines.
JoinLines(lines) ==
    IF lines = <<>> THEN <<>>
    ELSE (IF Head(lines) = LBlank THEN <<>> ELSE <<Head(lines)>>)
         \o (IF Len(lines) > 1 THEN <<NL>> \o JoinLines(Tail(lines)) ELSE <<>>)

\* The text as it is, every newline kept.
KeepNewlines(toks) == toks

RECURSIVE CollapseNewlines(_)
\* text.replace(/\n{3,}/g, "\n\n")
CollapseNewlines(toks) ==
    IF toks = <<>> THEN <<>>
    ELSE IF Head(toks) = NL
         THEN LET rest == DropRun(toks, {NL}, TRUE)
                  run == Len(toks) - Len(rest)
              IN  (IF run >= 3 THEN <<NL, NL>> ELSE SubSeq(toks, 1, run))
                  \o CollapseNewlines(rest)
         ELSE <<Head(toks)>> \o CollapseNewlines(Tail(toks))

RECURSIVE SplitLines(_)
\* text.split("\n"): the lines of a token text (LBlank for an empty line).
SplitLines(toks) ==
    IF toks = <<>> THEN <<LBlank>>
    ELSE IF Head(toks) = NL THEN <<LBlank>> \o SplitLines(Tail(toks))
    ELSE IF Len(toks) = 1 THEN <<Head(toks)>>
    ELSE <<Head(toks)>> \o SplitLines(SubSeq(toks, 3, Len(toks)))

\* appendHeader with the clock reading t.
appendHeader(content_, t) ==
    IF JoinLines(content_) = <<>> THEN <<>>
    ELSE SplitLines(CollapseNewlines(JoinLines(<<LMarker, LTimestamp(t), LBlank>> \o content_)))

\* The options generateCSS works with: every include flag true, the selection
\* passed on, preferTokenRefs and numberUnit defaulted.
EffectiveOptions(options_) ==
    [includeTextStyles |-> TRUE,
     includePaintStyles |-> TRUE,
     includeEffectStyles |-> TRUE,
     includeVariables |-> TRUE,
     selectedCollectionIds |-> options_.selectedCollectionIds,
     preferTokenRefs |-> IF options_.preferTokenRefs = "undefined" THEN TRUE
                         ELSE options_.preferTokenRefs = "true",
     numberUnit |-> IF options_.numberUnit = "undefined" THEN "px" ELSE options_.numberUnit]

\* { ...opt, selectedCollectionIds: [coll.id] }
OptForColl(opt, coll) ==
    [opt EXCEPT !.selectedCollectionIds = [defined |-> TRUE, ids |-> <<coll.id>>]]

\* A document for every mode, whatever the number of modes.
HasModeDocumentsAlways(coll) == Len(coll.modes) > 0

\* const modes = coll.modes && coll.modes.length > 1 ? coll.modes : null
HasModeDocuments(coll) == Len(coll.modes) > 1

\* The documents of one collection as writes to result.collections, in order:
\* one per mode when it has two modes or more, else one.
CollectionWrites(payload_, opt, coll, t) ==
    LET Written(fileName, content_) ==
            IF content_ = <<>> THEN <<>> ELSE <<MapSet(fileName, appendHeader(content_, t))>>
    IN  IF HasModeDocuments(coll)
        THEN Concat([m \in DOMAIN coll.modes |->
                Written(coll.name \o <<"-">> \o coll.modes[m].name,
                        emitVariablesSection(
                            [payload_ EXCEPT
                                !.collections = <<[coll EXCEPT !.modes = <<coll.modes[m]>>]>>,
                                !.variableModes = <<coll.modes[m]>>],
                            OptForColl(opt, coll)))])
        ELSE Written(coll.name,
                     emitVariablesSection([payload_ EXCEPT !.collections = <<coll>>],
                                          OptForColl(opt, coll)))

\* The writes to result.collections of the whole run.
AllCollectionWrites(payload_, opt, t) ==
    IF ~(opt.includeVariables /\ payload_.collections # <<>>) THEN <<>>
    ELSE LET allowed == AllowedSet(opt)
         IN  Concat([k \in DOMAIN payload_.collections |->
                LET coll == payload_.collections[k]
                IN  IF allowed.on /\ coll.id \notin allowed.ids THEN <<>>
                    ELSE IF \A j \in DOMAIN payload_.variables :
                                payload_.variables[j].variableCollectionId # coll.id
                    THEN <<>>
                    ELSE CollectionWrites(payload_, opt, coll, t)])

\* styleParts.join("\n\n"): a blank line between two parts.
RECURSIVE JoinParts(_)
JoinParts(parts) ==
    IF parts = <<>> THEN <<>>
    ELSE IF Len(parts) = 1 THEN Head(parts)
    ELSE Head(parts) \o <<LBlank>> \o JoinParts(Tail(parts))

\* The style parts, in the order paint, effect, text; empty ones left out.
StyleParts(payload_, opt) ==
    LET Pushed(content_) == IF content_ # <<>> THEN <<content_>> ELSE <<>>
    IN  (IF opt.includePaintStyles
         THEN Pushed(emitPaintStylesSection(payload_, opt)) ELSE <<>>)
        \o (IF opt.includeEffectStyles
            THEN Pushed(emitEffectStylesSection(payload_, opt)) ELSE <<>>)
        \o (IF opt.includeTextStyles
            THEN Pushed(emitTextStylesSection(payload_, opt)) ELSE <<>>)

\* generateCSS with the clock reading t: collections is the record as its
\* writes in order (a later write to a key replaces the earlier value), styles
\* is the styles document, empty when result.styles is not set.  An exception
\* thrown by a resolver call ends the run without a result.
generateCSS(payload_, options_, t) ==
    LET Run(opt, writes) ==
            IF \/ \E w \in DOMAIN writes : \E l \in DOMAIN writes[w].val :
                     writes[w].val[l].val = RThrown
               \/ /\ opt.includeTextStyles /\ payload_.textStyles # <<>>
                  /\ MapHas(buildFamilyToVarMap(payload_), <<>>)
            THEN [status |-> "thrown", collections |-> <<>>, styles |-> <<>>]
            ELSE [status |-> "returned",
                  collections |-> writes,
                  styles |-> appendHeader(JoinParts(StyleParts(payload_, opt)), t)]
    IN  Run(EffectiveOptions(options_),
            AllCollectionWrites(payload_, EffectiveOptions(options_), t))

(***************************************************************************)
(* Inputs of the checked runs                                              *)
(***************************************************************************)
\* Sequences over S of length at most n.
BoundedSeq(S, n) == UNION {[1..k -> S] : k \in 0..n}

ModeIds == {"m1", "m2"}

\* The longest alias chain of the resolver's inputs: long enough to pass the
\* depth cap.
MaxChain == 22

\* The longest input name of the identifier derivations.
MaxNameLen == 4

\* Input characters of the derivations: a lower-case and an upper-case letter,
\* a digit, both separators, a hyphen, and two characters outside [a-z0-9-].
NameAlphabet == {"a", "B", "1", "/", " ", "-", "_", "."}

\* A chain of len variables 1 -> 2 -> ... -> len, each aliasing the next under
\* mode m1, the last one holding value last.
ChainVariables(len, last) ==
    [i \in 1..len |->
        Variable(i, <<"t">>, "STRING",
                 <<Entry("m1", IF i < len THEN Alias(i + 1) ELSE last)>>, "c1")]

\* Chains ending in a literal, in an alias back into the chain (a cycle of any
\* length, a self-alias included) or in an alias to a variable that does not
\* exist.
ChainInputs ==
    {[variables |-> ChainVariables(len, last), start |-> Alias(1)] :
        <<len, last>> \in
            {<<l, v>> \in (1..MaxChain) \X ({Num(700)} \cup {Alias(j) : j \in 1..(MaxChain + 1)}) :
                isAlias(v) => v.id <= l + 1}}

SmallValues == {Num(700), Num(800), Alias(1), Alias(2), Alias(3), Undefined}

\* Every valuesByMode over the two modes, in both insertion orders.
SmallValuesByMode ==
    {<<>>}
    \cup {<<Entry(m, v)>> : <<m, v>> \in ModeIds \X SmallValues}
    \cup {<<Entry(m, v), Entry(CHOOSE o \in ModeIds : o # m, w)>> :
            <<m, v, w>> \in ModeIds \X SmallValues \X SmallValues}

\* Two variables 1 and 2 with arbitrary values (3 is a dangling target).
SmallInputs ==
    {[variables |-> <<Variable(1, <<"t">>, "STRING", a, "c1"),
                      Variable(2, <<"u">>, "STRING", b, "c1")>>,
      start |-> st] :
        <<a, b, st>> \in SmallValuesByMode \X SmallValuesByMode
                          \X {Alias(1), Alias(3), Num(700)}}

NoPayload == [variables |-> <<>>, collections |-> <<>>, variableModes |-> <<>>,
              textStyles |-> <<>>, paintStyles |-> <<>>, effectStyles |-> <<>>]
NoOptions == [includeTextStyles |-> TRUE, includePaintStyles |-> TRUE,
              includeEffectStyles |-> TRUE, includeVariables |-> TRUE,
              selectedCollectionIds |-> [defined |-> FALSE, ids |-> <<>>],
              preferTokenRefs |-> "undefined", numberUnit |-> "undefined"]
NoResult == [status |-> "none", collections |-> <<>>, styles |-> <<>>]

(***************************************************************************)
(* The identifier derivation as an operation                               *)
(***************************************************************************)
InitDerive ==
    /\ pc = "derive"
    /\ name \in BoundedSeq(NameAlphabet, MaxNameLen)
    /\ derived = <<>>
    /\ varById = <<>> /\ modeId = "" /\ start = Undefined /\ value = Undefined
    /\ seen = {} /\ depth = 0 /\ lookups = 0 /\ resolved = Undefined
    /\ payload = NoPayload /\ options = NoOptions /\ result = NoResult
    /\ clock = 0
    /\ content = <<>> /\ document = <<>>
    /\ data = <<>> /\ selectedCollections = <<>> /\ cssOutput = NoResult
    /\ updates = <<>> /\ effectPending = FALSE

Derive ==
    /\ pc = "derive"
    /\ derived' = kebab(name)
    /\ pc' = "derived"
    /\ UNCHANGED <<name, varById, modeId, start, value, seen, depth, lookups,
                   resolved, payload, options, result, clock, content, document,
                   data, selectedCollections, cssOutput, updates, effectPending>>

DeriveVarName ==
    /\ pc = "derive"
    /\ derived' = toCssVarName(name)
    /\ pc' = "named"
    /\ UNCHANGED <<name, varById, modeId, start, value, seen, depth, lookups,
                   resolved, payload, options, result, clock, content, document,
                   data, selectedCollections, cssOutput, updates, effectPending>>

NextDerive == Derive \/ DeriveVarName

SpecDerive == InitDerive /\ [][NextDerive]_vars

(***************************************************************************)
(* The resolver as a sequence of calls                                     *)
(***************************************************************************)
InitResolve ==
    /\ pc = "resolve"
    /\ \E inp \in ChainInputs \cup SmallInputs :
          /\ varById = BuildVarById(inp.variables)
          /\ start = inp.start
          /\ value = inp.start
    /\ modeId \in {""} \cup ModeIds
    /\ seen = {} /\ depth = 0 /\ lookups = 0 /\ resolved = Undefined
    /\ name = <<>> /\ derived = <<>>
    /\ payload = NoPayload /\ options = NoOptions /\ result = NoResult
    /\ clock = 0
    /\ content = <<>> /\ document = <<>>
    /\ data = <<>> /\ selectedCollections = <<>> /\ cssOutput = NoResult
    /\ updates = <<>> /\ effectPending = FALSE

\* A call that returns: the whole recursion unwinds with its value.
ResolveReturn ==
    /\ pc = "resolve"
    /\ LET st == ResolveStep(value, modeId, varById, seen, depth)
       IN  /\ st.ret
           /\ resolved' = st.val
           /\ lookups' = lookups + st.got
    /\ pc' = "resolved"
    /\ UNCHANGED <<name, derived, varById, modeId, start, value, seen, depth,
                   payload, options, result, clock, content, document,
                   data, selectedCollections, cssOutput, updates, effectPending>>

\* A call that marks its target visited and calls itself on the target's value.
ResolveRecurse ==
    /\ pc = "resolve"
    /\ LET st == ResolveStep(value, modeId, varById, seen, depth)
       IN  /\ ~st.ret
           /\ value' = st.val
           /\ seen' = st.seen
           /\ depth' = st.depth
           /\ lookups' = lookups + st.got
    /\ UNCHANGED <<pc, name, derived, varById, modeId, start, resolved,
                   payload, options, result, clock, content, document,
                   data, selectedCollections, cssOutput, updates, effectPending>>

NextResolve == ResolveReturn \/ ResolveRecurse

SpecResolve == InitResolve /\ [][NextResolve]_vars

(***************************************************************************)
(* Payloads and options of the generateCSS runs                            *)
(***************************************************************************)

\* A text style with a family, a style label and a size (any of them may be
\* Undefined) and nothing else.
TextStyle(nm, family, style, size) ==
    [name |-> nm, fontFamily |-> Undefined,
     fontName |-> [family |-> family, style |-> style],
     fontWeight |-> Undefined, fontSize |-> size,
     lineHeight |-> Undefined, letterSpacing |-> Undefined,
     textCase |-> <<>>, textDecoration |-> <<>>,
     boundVariables |-> [fontFamily |-> Undefined, fontWeight |-> Undefined, fontSize |-> Undefined, lineHeight |-> Undefined, letterSpacing |-> Undefined]]

\* A paint style of one visible solid paint.
SolidPaintStyle(nm, color) ==
    [name |-> nm,
     paints |-> <<[type |-> "SOLID", visible |-> "undefined", color |-> color,
                   opacity |-> Undefined,
                   boundVariables |-> [color |-> Undefined, opacity |-> Undefined],
                   gradientStops |-> <<>>]>>]

\* An effect style of one visible drop shadow.
ShadowEffectStyle(nm, radius) ==
    [name |-> nm,
     effects |-> <<[type |-> "DROP_SHADOW", visible |-> "undefined",
                    offsetX |-> Num(0), offsetY |-> Num(200), radius |-> radius,
                    spread |-> Undefined, color |-> Color(25),
                    boundVariables |-> [offsetX |-> Undefined, offsetY |-> Undefined,
                                        radius |-> Undefined, spread |-> Undefined,
                                        color |-> Undefined]]>>]

\* The parts the payloads are made of: the two modes, a text style, a text
\* style none of whose properties is set (it prints no block), a paint style,
\* an effect style, and a variable name that reads as the primary font family.
Sample ==
    [light |-> Mode("m1", <<"L">>),
     dark |-> Mode("m2", <<"D">>),
     heading |-> TextStyle(<<"H","/","h","1">>, Str(<<"I","n","t","e","r">>),
                                Str(<<"B","o","l","d">>), Num(1600)),
     bare |-> TextStyle(<<"H","/","h","2">>, Undefined, Undefined, Undefined),
     paint |-> SolidPaintStyle(<<"P","/","p","1">>, Color(100)),
     effect |-> ShadowEffectStyle(<<"E","/","e","1">>, Num(400)),
     familyName |-> <<"f","o","n","t"," ","f","a","m","i","l","y"," ","p","r","i","m","a","r","y">>]

Options(text, paint, effect, variables, selected, prefer, unit) ==
    [includeTextStyles |-> text, includePaintStyles |-> paint,
     includeEffectStyles |-> effect, includeVariables |-> variables,
     selectedCollectionIds |-> selected, preferTokenRefs |-> prefer, numberUnit |-> unit]

NotSelecting == [defined |-> FALSE, ids |-> <<>>]
Selecting(ids) == [defined |-> TRUE, ids |-> ids]

\* The selections a caller passes: none, the empty list, one or both of the
\* collections, and a collection that does not exist.
Selections ==
    {NotSelecting, Selecting(<<>>), Selecting(<<"c1">>), Selecting(<<"c2">>),
     Selecting(<<"c1", "c2">>), Selecting(<<"cx">>)}

\* Collection lists: none, collection A with no, one or two modes, and A
\* followed by a second collection named B or A-L with one or two modes.
CollectionLists ==
    {<<>>}
    \cup {<<Collection("c1", <<"A">>, ms)>> :
            ms \in {<<>>, <<Sample.light>>, <<Sample.light, Sample.dark>>}}
    \cup {<<Collection("c1", <<"A">>, ms), Collection("c2", nm, ns)>> :
            <<ms, nm, ns>> \in {<<>>, <<Sample.light>>, <<Sample.light, Sample.dark>>}
                                \X {<<"B">>, <<"A","-","L">>}
                                \X {<<Sample.light>>, <<Sample.light, Sample.dark>>}}

\* A number variable of collection c1 valued in the light mode, in both, in the
\* dark mode only, or in none.
SizeVariables ==
    {Variable(1, <<"s","/","x">>, "FLOAT", vbm, "c1") :
        vbm \in {<<Entry("m1", Num(100))>>,
                 <<Entry("m1", Num(100)), Entry("m2", Num(200))>>,
                 <<Entry("m2", Num(200))>>,
                 <<>>}}

\* A second, colour variable of c1, of c2 or of no collection: an alias of the
\* first in the light mode, a colour in the dark mode, or a colour in both
\* (dark inserted first).
ColorVariables ==
    {Variable(2, <<"k">>, "COLOR", vbm, coll) :
        <<vbm, coll>> \in {<<Entry("m1", Alias(1))>>,
                           <<Entry("m2", Color(50))>>,
                           <<Entry("m2", Color(50)), Entry("m1", Color(100))>>}
                          \X {"c1", "c2", ""}}

\* Runs about the partition into documents: collections, modes and selections;
\* variableModes is as the plugin fills it, the modes of all collections in
\* order, or both modes whatever the collections are.
PartitionInputs ==
    {[payload |-> [variables |-> vs, collections |-> cl, variableModes |-> vm,
                   textStyles |-> <<>>, paintStyles |-> <<>>, effectStyles |-> <<>>],
      options |-> Options(TRUE, TRUE, TRUE, TRUE, sel, "undefined", "undefined")] :
        <<cl, vm, vs, sel>> \in
            {<<c, m, v, x>> \in CollectionLists \X BoundedSeq({Sample.light, Sample.dark}, 2)
                                 \X ({<<a>> : a \in SizeVariables}
                                     \cup {<<a, b>> : <<a, b>> \in SizeVariables \X ColorVariables})
                                 \X Selections :
                m \in {Concat([k \in DOMAIN c |-> c[k].modes]), <<Sample.light, Sample.dark>>}}}

\* Runs about the include flags: every combination of flags on payloads with
\* or without a variable and each kind of style.
FlagInputs ==
    {[payload |-> [variables |-> vs,
                   collections |-> <<Collection("c1", <<"A">>, <<Sample.light>>)>>,
                   variableModes |-> <<Sample.light>>,
                   textStyles |-> ts, paintStyles |-> ps, effectStyles |-> es],
      options |-> Options(ft, fp, fe, fv, NotSelecting, "undefined", "undefined")] :
        <<vs, ts, ps, es, ft, fp, fe, fv>> \in
            {<<>>, <<Variable(1, <<"s","/","x">>, "FLOAT", <<Entry("m1", Num(100))>>, "c1")>>}
            \X {<<>>, <<Sample.heading>>, <<Sample.bare>>}
            \X {<<>>, <<Sample.paint>>}
            \X {<<>>, <<Sample.effect>>}
            \X BOOLEAN \X BOOLEAN \X BOOLEAN \X BOOLEAN}

\* Runs about aliases: two string variables, the second with or without an id,
\* each a literal, an alias of the first (itself, for the first), of the
\* second, or of variable 3, which does not exist; with and without a text
\* style, under every preferTokenRefs and with one or two modes.
AliasInputs ==
    {[payload |-> [variables |->
                       <<Variable(1, <<"f">>, "STRING", <<Entry("m1", a)>>, "c1"),
                         Variable(i, nm, "STRING", <<Entry("m1", b)>>, "c1")>>,
                   collections |-> <<Collection("c1", <<"A">>, ms)>>,
                   variableModes |-> ms,
                   textStyles |-> ts, paintStyles |-> <<>>, effectStyles |-> <<>>],
      options |-> Options(TRUE, TRUE, TRUE, TRUE, NotSelecting, prefer, unit)] :
        <<a, b, i, nm, ms, ts, prefer, unit>> \in
            {Str(<<"I","n","t","e","r">>), Alias(1), Alias(2), Alias(3)}
            \X {Str(<<"I","n","t","e","r">>), Alias(1), Alias(2), Alias(3)}
            \X {2, 0}
            \X {<<"u">>, Sample.familyName}
            \X {<<Sample.light>>, <<Sample.light, Sample.dark>>}
            \X {<<>>, <<Sample.heading>>}
            \X {"undefined", "true", "false"}
            \X {"undefined", "none"}}

\* Runs about tokens: one number variable (plainly named, named after a
\* weight label or after the font weight), one text style carrying a weight
\* label, and a paint and an effect style, the three styles under one name.
\* The first part varies the variable's value and the number unit, the second
\* the weight label, the third the styles' name.
TokenInputs ==
    LET names == {<<"s","/","x">>, <<"s","p","a","c","i","n","g","/","m","e","d","i","u","m">>, <<"t","/","f","o","n","t","-","w","e","i","g","h","t","-","s","e","m","i","b","o","l","d">>,
                  <<"f","o","n","t","-","w","e","i","g","h","t","/","s","e","m","i","b","o","l","d">>, <<"f","o","n","t","-","w","e","i","g","h","t","/","r","e","g","u","l","a","r">>,
                  <<"f","o","n","t","-","w","e","i","g","h","t","/","n","o","r","m","a","l">>}
        labels == {WeightWord[f] : f \in DOMAIN WeightWord}
                  \cup {<<"S","e","m","i","B","o","l","d">>, <<"E","x","t","r","a"," ","B","o","l","d">>, <<"U","L","T","R","A"," ","L","I","G","H","T">>, <<"R","e","g","u","l","a","r">>, <<"N","o","r","m","a","l">>}
        Run(vn, h, unit, label, sn) ==
            [payload |-> [variables |-> <<Variable(1, vn, "FLOAT", <<Entry("m1", Num(h))>>, "c1")>>,
                          collections |-> <<Collection("c1", <<"A">>, <<Sample.light>>)>>,
                          variableModes |-> <<Sample.light>>,
                          textStyles |-> <<[TextStyle(sn, Undefined, Undefined, Num(1250))
                                              EXCEPT !.fontWeight = Str(label)]>>,
                          paintStyles |-> <<SolidPaintStyle(sn, Color(100))>>,
                          effectStyles |-> <<ShadowEffectStyle(sn, Num(400))>>],
             options |-> Options(TRUE, TRUE, TRUE, TRUE, NotSelecting, "undefined", unit)]
    IN  {Run(vn, h, unit, <<"S","e","m","i","B","o","l","d">>, <<"H","/","h","1">>) :
            <<vn, h, unit>> \in names \X {200, 125, 314} \X {"undefined", "none", "rem"}}
        \cup {Run(vn, 200, "undefined", label, <<"H","/","h","1">>) : <<vn, label>> \in names \X labels}
        \cup {Run(<<"s","/","x">>, 200, "undefined", <<"B","o","l","d">>, sn) :
                sn \in {<<"h">>, <<"H","/","h","1">>, <<"a","/","b","/","c">>, <<"A","a","/","B","b"," ","C","c","/","d">>}}

\* Runs about font families: no family variable, one named as the primary or
\* as the secondary family, or both, each holding Inter or Roboto; and one or
\* two text styles of the families Inter, Roboto and Arial.
FamilyInputs ==
    LET families == {Str(<<"I","n","t","e","r">>), Str(<<"R","o","b","o","t","o">>), Str(<<"A","r","i","a","l">>)}
        held == {Str(<<"I","n","t","e","r">>), Str(<<"R","o","b","o","t","o">>)}
        Primary(a) == Variable(1, Sample.familyName, "STRING", <<Entry("m1", a)>>, "c1")
        Secondary(b) == Variable(2, <<"f","o","n","t","-","f","a","m","i","l","y","-","s","e","c","o","n","d","a","r","y">>, "STRING", <<Entry("m1", b)>>, "c1")
        Run(vs, ts) ==
            [payload |-> [variables |-> vs,
                          collections |-> <<Collection("c1", <<"A">>, <<Sample.light>>)>>,
                          variableModes |-> <<Sample.light>>,
                          textStyles |-> ts, paintStyles |-> <<>>, effectStyles |-> <<>>],
             options |-> Options(TRUE, TRUE, TRUE, TRUE, NotSelecting, "undefined", "undefined")]
    IN  {Run(vs, ts) :
            <<vs, ts>> \in
                ({<<>>} \cup {<<Primary(a)>> : a \in held} \cup {<<Secondary(b)>> : b \in held}
                 \cup {<<Primary(a), Secondary(b)>> : <<a, b>> \in held \X held})
                \X ({<<TextStyle(<<"H","/","h","1">>, f, Str(<<"B","o","l","d">>), Num(1600))>> : f \in families}
                    \cup {<<TextStyle(<<"H","/","h","1">>, f, Str(<<"B","o","l","d">>), Num(1600)),
                            TextStyle(<<"H","/","h","2">>, g, Str(<<"B","o","l","d">>), Num(1200))>> :
                              <<f, g>> \in families \X families})}

(***************************************************************************)
(* generateCSS as an operation, run twice on the same arguments            *)
(***************************************************************************)
\* Runs about paint layers: one paint style of one or two layers.  The first
\* layer is solid or an image, with each visible flag, and with an opacity that
\* is absent, 1, 0.5 or an alias, bound or not to a variable; the second, when
\* there is one, is a solid layer of another colour, visible or not.
PaintInputs ==
    LET Layer(type, visible, color, opacity, bound) ==
            [type |-> type, visible |-> visible, color |-> color, opacity |-> opacity,
             boundVariables |-> [color |-> Undefined, opacity |-> bound],
             gradientStops |-> <<>>]
        Run(layers) ==
            [payload |-> [variables |-> <<>>, collections |-> <<>>, variableModes |-> <<>>,
                          textStyles |-> <<>>,
                          paintStyles |-> <<[name |-> <<"P","/","p","1">>, paints |-> layers]>>,
                          effectStyles |-> <<>>],
             options |-> Options(TRUE, TRUE, TRUE, TRUE, NotSelecting, "undefined", "undefined")]
    IN  {Run(<<Layer(type, visible, Color(100), opacity, bound)>> \o second) :
            <<type, visible, opacity, bound, second>> \in
                {"SOLID", "IMAGE"} \X {"undefined", "true", "false"}
                \X {Undefined, Num(100), Num(50), Alias(1)} \X {Undefined, Alias(2)}
                \X ({<<>>} \cup {<<Layer("SOLID", v, Color(50), Num(30), Undefined)>> :
                                    v \in {"true", "false"}})}

\* Runs about weights: no variable or one number variable whose last segment
\* is the label bold, named in lower case, with an upper-case letter, with an
\* underscore or with a dot; and one text style whose fontWeight is absent, the
\* label Bold or the number 400 and whose fontName.style is absent, Italic,
\* Bold or Regular.
WeightInputs ==
    LET names == {<<"f","o","n","t","-","w","e","i","g","h","t","/","b","o","l","d">>, <<"F","o","n","t","/","B","o","l","d">>, <<"w","_","x","/","b","o","l","d">>, <<"w",".","x","/","b","o","l","d">>}
        Run(vs, weight, style) ==
            [payload |-> [variables |-> vs,
                          collections |-> <<Collection("c1", <<"A">>, <<Sample.light>>)>>,
                          variableModes |-> <<Sample.light>>,
                          textStyles |-> <<[TextStyle(<<"H","/","h","1">>, Str(<<"I","n","t","e","r">>), style, Num(1600))
                                              EXCEPT !.fontWeight = weight]>>,
                          paintStyles |-> <<>>, effectStyles |-> <<>>],
             options |-> Options(TRUE, TRUE, TRUE, TRUE, NotSelecting, "undefined", "undefined")]
    IN  {Run(vs, weight, style) :
            <<vs, weight, style>> \in
                ({<<>>} \cup {<<Variable(1, nm, "FLOAT", <<Entry("m1", Num(70000))>>, "c1")>> :
                                nm \in names})
                \X {Undefined, Str(<<"B","o","l","d">>), Num(40000)}
                \X {Undefined, Str(<<"I","t","a","l","i","c">>), Str(<<"B","o","l","d">>), Str(<<"R","e","g","u","l","a","r">>)}}

\* The payload and the options as a run would leave them had it cut each
\* collection down to one mode in place (coll.modes = [mode]) rather than in a
\* copy.
InputsAfterInPlace(payload_, options_) ==
    [payload |-> [payload_ EXCEPT !.collections =
                     [k \in DOMAIN payload_.collections |->
                         LET coll == payload_.collections[k]
                         IN  IF HasModeDocuments(coll)
                             THEN [coll EXCEPT !.modes = <<coll.modes[Len(coll.modes)]>>]
                             ELSE coll]],
     options |-> options_]

\* The payload and the options as a run leaves them.  generateCSS only reads
\* them: opt is a new object, optForColl, collForMode and the payload handed
\* to the emitter are spread copies, and the emitters fill maps and arrays of
\* their own.
InputsAfter(payload_, options_) == [payload |-> payload_, options |-> options_]

InitGenerate ==
    /\ pc = "ready"
    /\ \E inp \in PartitionInputs \cup FlagInputs \cup AliasInputs \cup TokenInputs
                  \cup FamilyInputs \cup PaintInputs \cup WeightInputs :
          payload = inp.payload /\ options = inp.options
    /\ result = NoResult
    /\ clock = 0
    /\ content = <<>> /\ document = <<>>
    /\ name = <<>> /\ derived = <<>>
    /\ varById = <<>> /\ modeId = "" /\ start = Undefined /\ value = Undefined
    /\ seen = {} /\ depth = 0 /\ lookups = 0 /\ resolved = Undefined
    /\ data = <<>> /\ selectedCollections = <<>> /\ cssOutput = NoResult
    /\ updates = <<>> /\ effectPending = FALSE

\* The first run: the clock has advanced when it reads it.
Generate ==
    /\ pc = "ready"
    /\ clock' = clock + 1
    /\ result' = generateCSS(payload, options, clock')
    /\ payload' = InputsAfter(payload, options).payload
    /\ options' = InputsAfter(payload, options).options
    /\ pc' = "generated"
    /\ UNCHANGED <<name, derived, varById, modeId, start, value, seen, depth,
                   lookups, resolved, content, document,
                   data, selectedCollections, cssOutput, updates, effectPending>>

\* A second run on the same payload and options, at a later time.
Regenerate ==
    /\ pc = "generated"
    /\ clock' = clock + 1
    /\ result' = generateCSS(payload, options, clock')
    /\ payload' = InputsAfter(payload, options).payload
    /\ options' = InputsAfter(payload, options).options
    /\ pc' = "regenerated"
    /\ UNCHANGED <<name, derived, varById, modeId, start, value, seen, depth,
                   lookups, resolved, content, document,
                   data, selectedCollections, cssOutput, updates, effectPending>>

NextGenerate == Generate \/ Regenerate

SpecGenerate == InitGenerate /\ [][NextGenerate]_vars

(***************************************************************************)
(* appendHeader as an operation on any content                             *)
(***************************************************************************)
MaxLines == 6

\* The content is any text of up to MaxLines lines, each empty, `:root {` or
\* `}`; the text of one empty line is the empty string.
InitHeader ==
    /\ pc = "compose"
    /\ content \in BoundedSeq({LBlank, LRoot, LClose}, MaxLines)
    /\ document = <<>>
    /\ clock = 0
    /\ name = <<>> /\ derived = <<>>
    /\ varById = <<>> /\ modeId = "" /\ start = Undefined /\ value = Undefined
    /\ seen = {} /\ depth = 0 /\ lookups = 0 /\ resolved = Undefined
    /\ payload = NoPayload /\ options = NoOptions /\ result = NoResult
    /\ data = <<>> /\ selectedCollections = <<>> /\ cssOutput = NoResult
    /\ updates = <<>> /\ effectPending = FALSE

AppendHeader ==
    /\ pc = "compose"
    /\ clock' = clock + 1
    /\ document' = appendHeader(content, clock')
    /\ pc' = "composed"
    /\ UNCHANGED <<name, derived, varById, modeId, start, value, seen, depth,
                   lookups, resolved, payload, options, result, content,
                   data, selectedCollections, cssOutput, updates, effectPending>>

SpecHeader == InitHeader /\ [][AppendHeader]_vars

(***************************************************************************)
(* The plugin UI: App (React 18 root: the updates of one handler are       *)
(* batched, and an effect runs after the render that changed a dependency) *)
(***************************************************************************)
MaxClock == 3
MaxPending == 2

\* useState<GenerateCSSOptions>({...}): also the options the onmessage handler
\* closes over, since it is installed once, by the first render's effect.
InitialOptions == Options(TRUE, TRUE, TRUE, TRUE, NotSelecting, "true", "px")

\* The payloads the plugin sends: a number variable of collection A, a colour
\* variable of collection B and a text style, with A alone or with A and B.
Payloads ==
    {[variables |-> <<Variable(1, <<"s","/","x">>, "FLOAT", <<Entry("m1", Num(100))>>, "c1"),
                      Variable(2, <<"k">>, "COLOR", <<Entry("m1", Color(50))>>, "c2")>>,
      collections |-> cl, variableModes |-> <<Sample.light>>,
      textStyles |-> <<Sample.heading>>, paintStyles |-> <<>>, effectStyles |-> <<>>] :
        cl \in {<<Collection("c1", <<"A">>, <<Sample.light>>)>>,
                <<Collection("c1", <<"A">>, <<Sample.light>>),
                  Collection("c2", <<"B">>, <<Sample.light>>)>>}}

\* init[c.id] = true for every collection of the payload, in order.
InitSelected(payload_) ==
    LET cl == payload_.collections
        first == Pick(cl, {i \in DOMAIN cl : \A j \in 1..(i - 1) : cl[j].id # cl[i].id}, 1)
    IN  [i \in DOMAIN first |-> MapSet(first[i].id, TRUE)]

\* The ids whose entry is true, in the order of the entries.
SelectedIds(selected) ==
    LET on == Pick(selected, {i \in DOMAIN selected : selected[i].val}, 1)
    IN  [i \in DOMAIN on |-> on[i].key]

\* { ...options, selectedCollectionIds: selectedIds }
EffectOptions(options_, selected) ==
    [options_ EXCEPT !.selectedCollectionIds = Selecting(SelectedIds(selected))]

\* One handler's queued state updates.
Update(k, payload_, key, css) == [k |-> k, payload |-> payload_, key |-> key, css |-> css]

\* { ...prev, [id]: !prev[id] }: an id with no entry gets the entry true.
Toggled(selected, id) ==
    IF MapHas(selected, id)
    THEN [i \in DOMAIN selected |->
            IF selected[i].key = id THEN MapSet(id, ~selected[i].val) ELSE selected[i]]
    ELSE Append(selected, MapSet(id, TRUE))

\* The state after one queued update.
Apply(state, u) ==
    CASE u.k = "styles-data" ->
            [state EXCEPT !.data = <<u.payload>>,
                          !.selectedCollections = InitSelected(u.payload),
                          !.cssOutput = u.css]
      [] u.k = "toggleOption" ->
            [state EXCEPT !.options = [@ EXCEPT ![u.key] = ~@]]
      [] u.k = "toggleCollection" ->
            [state EXCEPT !.selectedCollections = Toggled(@, u.key)]
      [] u.k = "setCssOutput" ->
            [state EXCEPT !.cssOutput = u.css]

RECURSIVE Reduce(_, _)
\* The state after the queued updates, applied in the order they were queued.
Reduce(state, us) ==
    IF us = <<>> THEN state ELSE Reduce(Apply(state, Head(us)), Tail(us))

\* A variant in which the effect depends on data alone.
DependsOnData(u) == u.k = "styles-data"

\* The update replaces one of the effect's dependencies
\* [options, selectedCollections, data] by a new object.
DependsOn(u) == u.k \in {"styles-data", "toggleOption", "toggleCollection"}

\* The UI after it was mounted: no data, and the first render's effect has
\* returned early.
InitUI ==
    /\ pc = "ui"
    /\ data = <<>> /\ selectedCollections = <<>> /\ cssOutput = NoResult
    /\ options = InitialOptions
    /\ updates = <<>> /\ effectPending = FALSE
    /\ clock = 0
    /\ payload = NoPayload /\ result = NoResult
    /\ content = <<>> /\ document = <<>>
    /\ name = <<>> /\ derived = <<>>
    /\ varById = <<>> /\ modeId = "" /\ start = Undefined /\ value = Undefined
    /\ seen = {} /\ depth = 0 /\ lookups = 0 /\ resolved = Undefined

\* window.onmessage with a styles-data message: the CSS it sets is generated
\* with the handler's options and every collection selected.
StylesData ==
    /\ Len(updates) < MaxPending /\ clock < MaxClock
    /\ clock' = clock + 1
    /\ \E p \in Payloads :
          updates' = Append(updates,
              Update("styles-data", p, "",
                     generateCSS(p, EffectOptions(InitialOptions, InitSelected(p)), clock')))
    /\ UNCHANGED <<pc, name, derived, varById, modeId, start, value, seen, depth,
                   lookups, resolved, payload, options, result, content, document,
                   data, selectedCollections, cssOutput, effectPending>>

\* An Include check box is clicked: toggleOption(k), here for the first two of
\* the four boxes.
ToggleOption ==
    /\ Len(updates) < MaxPending
    /\ \E k \in {"includeVariables", "includeTextStyles"} :
          updates' = Append(updates, Update("toggleOption", NoPayload, k, NoResult))
    /\ UNCHANGED <<pc, name, derived, varById, modeId, start, value, seen, depth,
                   lookups, resolved, payload, options, result, clock, content, document,
                   data, selectedCollections, cssOutput, effectPending>>

\* The check box of one of the displayed collections is clicked.
ToggleCollection ==
    /\ Len(updates) < MaxPending
    /\ data # <<>>
    /\ \E i \in DOMAIN data[1].collections :
          updates' = Append(updates,
              Update("toggleCollection", NoPayload, data[1].collections[i].id, NoResult))
    /\ UNCHANGED <<pc, name, derived, varById, modeId, start, value, seen, depth,
                   lookups, resolved, payload, options, result, clock, content, document,
                   data, selectedCollections, cssOutput, effectPending>>

\* A render: it runs once the previous render's effect has run, takes every
\* queued update, and schedules the effect when a dependency was replaced.
Render ==
    /\ updates # <<>>
    /\ ~effectPending
    /\ LET next == Reduce([data |-> data, options |-> options,
                           selectedCollections |-> selectedCollections,
                           cssOutput |-> cssOutput], updates)
       IN  /\ data' = next.data
           /\ options' = next.options
           /\ selectedCollections' = next.selectedCollections
           /\ cssOutput' = next.cssOutput
    /\ effectPending' = \E i \in DOMAIN updates : DependsOn(updates[i])
    /\ updates' = <<>>
    /\ UNCHANGED <<pc, name, derived, varById, modeId, start, value, seen, depth,
                   lookups, resolved, payload, result, clock, content, document>>

\* The effect of the last render: it returns at once without data, else it
\* generates the CSS from the state of that render and sets cssOutput.
RunEffect ==
    /\ effectPending
    /\ clock < MaxClock
    /\ effectPending' = FALSE
    /\ IF data = <<>>
       THEN UNCHANGED <<clock, updates>>
       ELSE /\ clock' = clock + 1
            /\ updates' = Append(updates,
                  Update("setCssOutput", NoPayload, "",
                         generateCSS(data[1], EffectOptions(options, selectedCollections),
                                     clock')))
    /\ UNCHANGED <<pc, name, derived, varById, modeId, start, value, seen, depth,
                   lookups, resolved, payload, options, result, content, document,
                   data, selectedCollections, cssOutput>>

NextUI == StylesData \/ ToggleOption \/ ToggleCollection \/ Render \/ RunEffect

SpecUI == InitUI /\ [][NextUI]_vars

(***************************************************************************)
(* Claims about the alias resolver                                         *)
(***************************************************************************)
\* The hop the claims describe: the target's value for mode m when m is defined
\* on the target, otherwise the earliest inserted value that is defined.
ClaimedHop(target, m) ==
    LET vbm == target.valuesByMode
        own == {i \in DOMAIN vbm : vbm[i].mode = m /\ vbm[i].val # Undefined}
        def == {i \in DOMAIN vbm : vbm[i].val # Undefined}
    IN  IF own # {} THEN vbm[CHOOSE i \in own : TRUE].val
        ELSE IF def # {} THEN vbm[CHOOSE i \in def : \A j \in def : i <= j].val
        ELSE Undefined

RECURSIVE Follow(_, _, _, _)
\* The value reached from v after at most k hops through existing variables,
\* with no visited set and no depth cap.
Follow(v, m, vb, k) ==
    IF k = 0 \/ ~isAlias(v) \/ v.id \notin DOMAIN vb THEN v
    ELSE Follow(ClaimedHop(vb[v.id], m), m, vb, k - 1)

\* The chain from the start value never leaves the index nor reaches a
\* non-alias: with n variables, n hops without an end mean a cycle.
ChainIsCyclic ==
    LET e == Follow(start, modeId, varById, Cardinality(DOMAIN varById))
    IN  isAlias(e) /\ e.id \in DOMAIN varById

\* C1: the resolver terminates on every variable graph and start value: each
\* call either returns or recurses, a run makes at most one index lookup per
\* variable plus one, and on a cyclic chain the returned value is still an alias.
C1_ResolverTerminates ==
    /\ lookups <= Cardinality(DOMAIN varById) + 1
    /\ Cardinality(seen) = depth
    /\ pc = "resolve" => ENABLED NextResolve
    /\ (pc = "resolved" /\ ChainIsCyclic) => isAlias(resolved)

\* A cycle through three variables or more, detected by the visited set.
C1_Witness ==
    /\ pc = "resolved" /\ ChainIsCyclic /\ isAlias(resolved)
    /\ Cardinality(seen) >= 3 /\ depth <= DepthCap

\* C2: on an acyclic chain of at most 20 hops through existing variables the
\* resolver returns the chain's true terminal value, which is not an alias.
C2_AcyclicChainResolves ==
    (pc = "resolved" /\ ~isAlias(Follow(start, modeId, varById, 20)))
        => /\ resolved = Follow(start, modeId, varById, 20)
           /\ ~isAlias(resolved)

\* A chain of exactly 20 hops resolved to its literal.
C2_Witness ==
    /\ pc = "resolved"
    /\ isAlias(Follow(start, modeId, varById, 19))
    /\ ~isAlias(Follow(start, modeId, varById, 20))
    /\ resolved = Num(700)

\* C22: a call whose depth exceeds 20 and whose value is still an alias returns
\* that alias as it is and makes no lookup, so that a resolution makes at most
\* 21 lookups however long the chain is.
C22_DepthCapFailsOpen ==
    /\ lookups <= 21
    /\ depth <= 21
    /\ (pc = "resolved" /\ depth > 20 /\ isAlias(value)) =>
           (resolved = value /\ lookups = depth)

\* A chain of 22 variables ending in a literal: the call at depth 21 returns
\* the alias of the last variable, which exists and was not looked up.
C22_Witness ==
    /\ pc = "resolved" /\ depth = 21 /\ lookups = 21
    /\ isAlias(value) /\ resolved = value
    /\ value.id \in DOMAIN varById
    /\ ~isAlias(Follow(start, modeId, varById, 22))

(***************************************************************************)
(* Claims about the identifier derivations                                 *)
(***************************************************************************)
StrictChars == Range(LowerLetters) \cup Digits \cup {"-"}

\* C10: the strict derivation yields only characters of [a-z0-9-], with no
\* leading, trailing or repeated hyphen.
C10_KebabStrictOutput ==
    pc = "derived" =>
        /\ \A i \in DOMAIN derived : derived[i] \in StrictChars
        /\ derived # <<>> => (derived[1] # "-" /\ derived[Len(derived)] # "-")
        /\ \A i \in 1..(Len(derived) - 1) : ~(derived[i] = "-" /\ derived[i + 1] = "-")

\* C11: both derivations are idempotent (deriving a derived name again gives
\* the same name), and the empty name derives to the empty name.
C11_DerivationsIdempotent ==
    /\ pc = "derived" => kebab(derived) = derived
    /\ pc = "named" => toCssVarName(derived) = derived
    /\ (pc \in {"derived", "named"} /\ name = <<>>) => derived = <<>>

\* A derivation that rewrote its input into a non-empty name.
C11_Witness ==
    /\ pc \in {"derived", "named"}
    /\ derived # <<>>
    /\ derived # name
    /\ \E i \in 1..(Len(name) - 1) : name[i] = "-" /\ name[i + 1] \in {"-", "B"}

(***************************************************************************)
(* Claims about generateCSS                                                *)
(***************************************************************************)
\* A run of generateCSS has completed.
Generated == pc \in {"generated", "regenerated"}

\* The options the run worked with.
RunOptions == EffectiveOptions(options)

\* The names and the contents of the variable documents of the result.
DocumentKeys == MapKeys(result.collections)
DocumentOf(key) == MapGet(result.collections, key)

\* The declarations of a document, in order.
DeclarationsOf(doc) == Pick(doc, {i \in DOMAIN doc : doc[i].k = "decl"}, 1)

\* The names a collection's documents go by: one per mode when it has two
\* modes or more, else the collection's name.
DocumentNames(c) ==
    IF Len(c.modes) >= 2
    THEN {c.name \o <<"-">> \o c.modes[m].name : m \in DOMAIN c.modes}
    ELSE {c.name}

\* Collection k is the only one of the payload that can write a document of
\* that name.
SoleOwner(k, key) ==
    \A j \in DOMAIN payload.collections :
        j # k => key \notin DocumentNames(payload.collections[j])

\* The values of the payload's variables, with the mode they are stored under.
PayloadEntries ==
    UNION {Range(payload.variables[k].valuesByMode) : k \in DOMAIN payload.variables}

\* An alias whose target does not exist.
IsDangling(v) == isAlias(v) /\ v.id \notin DOMAIN BuildVarById(payload.variables)

\* An alias whose chain, followed under mode m, never ends.
IsCyclic(v, m) ==
    LET vb == BuildVarById(payload.variables)
        e == Follow(v, m, vb, Cardinality(DOMAIN vb))
    IN  isAlias(v) /\ isAlias(e) /\ e.id \in DOMAIN vb

\* The names a var(--...) reference may carry: the derived name of a variable
\* that has an id, or the derived raw id of an alias without a target.
ReferenceNames ==
    {toCssVarName(payload.variables[k].name) :
        k \in {j \in DOMAIN payload.variables : payload.variables[j].id # 0}}
    \cup {toCssVarName(IdText(e.val.id)) : e \in {x \in PayloadEntries : IsDangling(x.val)}}

\* C3: generateCSS returns a result on payloads with variables that have no
\* id, aliases of variables that do not exist and cyclic aliases; every
\* declaration of a variable document carries a literal or a var(--...)
\* reference to a variable's name or to the raw id of a missing target; and the
\* resolver returns an alias of a missing target unchanged, under every mode.
C3_NeverRaises ==
    Generated =>
        /\ result.status = "returned"
        /\ \A w \in DOMAIN result.collections :
               \A i \in DOMAIN result.collections[w].val :
                   LET line == result.collections[w].val[i]
                   IN  line.k = "decl" =>
                           \/ line.val.t \in {"number", "rgba", "text"}
                           \/ line.val.t = "var" /\ line.val.name \in ReferenceNames
        /\ \A e \in PayloadEntries : \A m \in {""} \cup ModeIds :
               IsDangling(e.val) =>
                   resolveAliasChainToPrimitive(e.val, m, BuildVarById(payload.variables)) = e.val

\* A run that resolves string aliases on a payload holding a variable without
\* id, an alias of a missing variable and a cyclic alias, and prints the
\* missing target's raw id as a reference.
C3_Witness ==
    /\ Generated /\ result.status = "returned"
    /\ ~RunOptions.preferTokenRefs
    /\ \E k \in DOMAIN payload.variables : payload.variables[k].id = 0
    /\ \E e \in PayloadEntries : IsDangling(e.val)
    /\ \E e \in PayloadEntries : IsCyclic(e.val, e.mode)
    /\ \E w \in DOMAIN result.collections :
           \E i \in DOMAIN result.collections[w].val :
               result.collections[w].val[i].val = RVar(toCssVarName(IdText(3)))

\* The blocks of the styles document: a text-style block is a class rule, a
\* paint-style and an effect-style block are announced by their comment.
HasTextBlock == \E i \in DOMAIN result.styles : result.styles[i].k = "class"
HasPaintBlock == \E i \in DOMAIN result.styles : result.styles[i] = LComment(Word.paintStyles)
HasEffectBlock == \E i \in DOMAIN result.styles : result.styles[i] = LComment(Word.effectStyles)

\* C4: each include flag passed to generateCSS switches its emitter: no
\* variable documents when includeVariables is false, no text-style, paint-style
\* or effect-style block in the styles document when its flag is false, and no
\* styles document when all three are false.
C4_IncludeFlagsHonoured ==
    Generated =>
        /\ ~options.includeVariables => result.collections = <<>>
        /\ ~options.includeTextStyles => ~HasTextBlock
        /\ ~options.includePaintStyles => ~HasPaintBlock
        /\ ~options.includeEffectStyles => ~HasEffectBlock
        /\ (~options.includeTextStyles /\ ~options.includePaintStyles
             /\ ~options.includeEffectStyles) => result.styles = <<>>

\* C5: whenever the caller supplies selectedCollectionIds, the empty list
\* included, every variable document of the result is a document of a
\* collection whose id is in the list.
C5_SelectionIsAllowList ==
    (Generated /\ options.selectedCollectionIds.defined) =>
        \A key \in DocumentKeys :
            \E k \in DOMAIN payload.collections :
                /\ payload.collections[k].id \in Range(options.selectedCollectionIds.ids)
                /\ key \in DocumentNames(payload.collections[k])

\* A collection the run does not skip: no non-empty list of ids was passed, or
\* its id is in it.
IsIncluded(c) ==
    ~(options.selectedCollectionIds.defined /\ options.selectedCollectionIds.ids # <<>>)
    \/ c.id \in Range(options.selectedCollectionIds.ids)

\* The variables emitter, run on collection c alone with the modes ms, prints
\* a declaration.
EmitsDeclaration(c, ms) ==
    \E line \in Range(emitVariablesSection(
                          [payload EXCEPT !.collections = <<[c EXCEPT !.modes = ms]>>],
                          [RunOptions EXCEPT !.selectedCollectionIds = Selecting(<<c.id>>)])) :
        line.k = "decl"

\* The document names the payload and the options call for.
ExpectedDocumentKeys ==
    UNION {LET c == payload.collections[k]
           IN  IF ~IsIncluded(c) THEN {}
               ELSE IF Len(c.modes) >= 2
               THEN {c.name \o <<"-">> \o c.modes[m].name :
                        m \in {x \in DOMAIN c.modes : EmitsDeclaration(c, <<c.modes[x]>>)}}
               ELSE IF EmitsDeclaration(c, c.modes) THEN {c.name}
               ELSE {} :
           k \in DOMAIN payload.collections}

C7_NoCrossModeLeakage ==
    Generated =>
        \A k \in DOMAIN payload.collections :
            LET c == payload.collections[k]
            IN  Len(c.modes) >= 2 =>
                    \A m \in DOMAIN c.modes :
                        LET key == c.name \o <<"-">> \o c.modes[m].name
                        IN  (key \in DocumentKeys /\ SoleOwner(k, key)) =>
                                DeclarationsOf(DocumentOf(key))
                                    = ModeLines(VarsOfCollection(payload.variables, c.id),
                                                c.modes[m], RunOptions,
                                                BuildIdToName(payload.variables),
                                                BuildVarById(payload.variables))

\* C8: the document of a mode of a collection with two modes or more wraps its
\* declarations in a selector naming the mode and not in :root, and the
\* document of a collection with at most one mode holds a :root block and no
\* mode selector.
C8_ModeSelectorWrapper ==
    Generated =>
        \A k \in DOMAIN payload.collections :
            LET c == payload.collections[k]
            IN  \A key \in DocumentNames(c) :
                    (key \in DocumentKeys /\ SoleOwner(k, key)) =>
                        IF Len(c.modes) >= 2
                        THEN /\ \E m \in DOMAIN c.modes :
                                    /\ key = c.name \o <<"-">> \o c.modes[m].name
                                    /\ LMode(c.modes[m].name) \in Range(DocumentOf(key))
                             /\ LRoot \notin Range(DocumentOf(key))
                        ELSE /\ LRoot \in Range(DocumentOf(key))
                             /\ \A i \in DOMAIN DocumentOf(key) : DocumentOf(key)[i].k # "mode"

\* A document without its timestamp line.
BodyOf(doc) == Pick(doc, {i \in DOMAIN doc : doc[i].k # "timestamp"}, 1)

\* A result with the timestamp line of every document left aside.
BodiesOf(res) ==
    [status |-> res.status,
     collections |-> [w \in DOMAIN res.collections |->
                         [key |-> res.collections[w].key,
                          val |-> BodyOf(res.collections[w].val)]],
     styles |-> BodyOf(res.styles)]

FormatUnitOf(v) == UnitOf(v, RunOptions.numberUnit)

\* The declarations the documents of the result hold for variable v.
DeclaredFor(v) ==
    UNION {{line \in Range(DeclarationsOf(DocumentOf(key))) :
                line.name = toCssVarName(v.name)} : key \in DocumentKeys}

\* The declarations document key holds for variable v.
DeclaredIn(key, v) ==
    {line \in Range(DeclarationsOf(DocumentOf(key))) : line.name = toCssVarName(v.name)}

\* C12: a number of a number-like variable is printed rounded half-up to one
\* decimal, followed by the unit, and bare but rounded alike when the unit is
\* "none".
C12_NumberRoundedThenUnit ==
    (Generated /\ result.status = "returned") =>
        \A k \in DOMAIN payload.variables :
            LET v == payload.variables[k]
            IN  v.resolvedType \in NUMBER_LIKE_TYPES =>
                    \A line \in DeclaredFor(v) :
                        line.val.t = "number" =>
                            /\ \E e \in Range(v.valuesByMode) :
                                   e.val.t = "number" /\ line.val.n = Round1(e.val.n)
                            /\ line.val.unit = (IF FormatUnitOf(v) = "none" THEN ""
                                                ELSE FormatUnitOf(v))

\* The font-weight declarations of the styles document.
FontWeightProps ==
    {line \in Range(result.styles) : line.k = "prop" /\ line.name = CssProperty.fontWeight}

\* The number-typed variables named .../font-weight-semibold.
FontWeightSemiboldVariables ==
    {k \in DOMAIN payload.variables :
        /\ LastSegment(payload.variables[k].name) = <<"f","o","n","t","-","w","e","i","g","h","t","-","s","e","m","i","b","o","l","d">>
        /\ payload.variables[k].resolvedType \in {"NUMBER", "FLOAT", "INT"}}

\* C13: the one text style of the payload has the fontWeight "SemiBold"; its
\* block declares font-weight: 600 when the weight index holds no variable for
\* that label, and font-weight: var(--name) with the derived name of the
\* number variable named .../font-weight-semibold when there is one.
C13_SemiBoldWeight ==
    (/\ Generated /\ result.status = "returned"
     /\ Len(payload.textStyles) = 1
     /\ payload.textStyles[1].fontWeight = Str(<<"S","e","m","i","B","o","l","d">>)) =>
        /\ (FontWeightSemiboldVariables = {}
            /\ ~MapHas(buildWeightVarIndex(payload.variables), WeightWord.semibold))
               => FontWeightProps = {LProp(CssProperty.fontWeight, RNumber(60000, ""))}
        /\ \A k \in FontWeightSemiboldVariables :
               \/ FontWeightProps = {LProp(CssProperty.fontWeight,
                                           RVar(kebab(payload.variables[k].name)))}
               \/ FontWeightProps = {LProp(CssProperty.fontWeight,
                                           RVar(toCssVarName(payload.variables[k].name)))}

\* The table of weight labels: the number of a label, compared without case
\* and whitespace, and 0 for a label the table does not hold.
WeightTable(label) ==
    LET t == ReplaceRuns(toLowerCase(label), {" ", "\t"}, TRUE, <<>>)
    IN  CASE t = WeightWord.thin -> 100
          [] t \in {WeightWord.extralight, WeightWord.ultralight} -> 200
          [] t = WeightWord.light -> 300
          [] t \in {WeightWord.regular, WeightWord.normal} -> 400
          [] t = WeightWord.medium -> 500
          [] t \in {WeightWord.semibold, WeightWord.demi} -> 600
          [] t = WeightWord.bold -> 700
          [] t \in {WeightWord.extrabold, WeightWord.ultrabold} -> 800
          [] t \in {WeightWord.black, WeightWord.heavy} -> 900
          [] OTHER -> 0

\* C14: a text style whose weight label is in the table, and for which the
\* weight index holds no variable, declares the font-weight of the label's own
\* table entry.
C14_WeightTableEntries ==
    (/\ Generated /\ result.status = "returned"
     /\ Len(payload.textStyles) = 1
     /\ WeightLabel(payload.textStyles[1]).t = "string") =>
        LET label == WeightLabel(payload.textStyles[1]).s
        IN  (/\ WeightTable(label) # 0
             /\ ~MapHas(buildWeightVarIndex(payload.variables), normalizeWeightKey(label)))
                => FontWeightProps =
                       {LProp(CssProperty.fontWeight, RNumber(100 * WeightTable(label), ""))}

\* The number variables that register in the weight index under key.
RegisteredUnder(key) ==
    {k \in DOMAIN payload.variables :
        /\ payload.variables[k].name # <<>>
        /\ payload.variables[k].resolvedType \in {"NUMBER", "FLOAT", "INT"}
        /\ normalizeWeightKey(LastSegment(payload.variables[k].name)) = key}

\* C15: when the one text style's weight label reads regular or normal and a
\* number variable registers under either of the two keys, the style's
\* font-weight refers to such a variable.
C15_RegularNormalAliases ==
    (/\ Generated /\ result.status = "returned"
     /\ Len(payload.textStyles) = 1
     /\ WeightLabel(payload.textStyles[1]).t = "string"
     /\ normalizeWeightKey(WeightLabel(payload.textStyles[1]).s)
            \in {WeightWord.regular, WeightWord.normal}
     /\ RegisteredUnder(WeightWord.regular) \cup RegisteredUnder(WeightWord.normal) # {}) =>
        \E k \in RegisteredUnder(WeightWord.regular) \cup RegisteredUnder(WeightWord.normal) :
            FontWeightProps = {LProp(CssProperty.fontWeight,
                                     RVar(kebab(payload.variables[k].name)))}

\* The token segment of a style name: all of the name after its first "/", and
\* the whole name when it has no "/".
TokenSegment(nm) ==
    IF "/" \notin Range(nm) THEN nm
    ELSE SubSeq(nm, 1 + CHOOSE k \in DOMAIN nm :
                        nm[k] = "/" /\ \A j \in 1..(k - 1) : nm[j] # "/", Len(nm))

\* The strict derivations of the token segments of a list of styles.
SegmentNames(styles) == {kebab(TokenSegment(styles[k].name)) : k \in DOMAIN styles}

\* C16: every class of the styles document is named by the strict derivation of
\* a text style's token segment, and every custom property by that of a paint
\* or effect style (with the opacity suffix for an opacity property).
C16_StyleNameIsTokenSegment ==
    (Generated /\ result.status = "returned") =>
        \A line \in Range(result.styles) :
            /\ line.k = "class" => line.name \in SegmentNames(payload.textStyles)
            /\ line.k = "decl" =>
                   \E nm \in SegmentNames(payload.paintStyles)
                             \cup SegmentNames(payload.effectStyles) :
                       line.name \in {nm, nm \o Word.opacitySuffix}

(***************************************************************************)
(* Claims about appendHeader                                               *)
(***************************************************************************)
\* The printed (non-empty) lines of a text, in order.
Printed(toks) == Pick(toks, {i \in DOMAIN toks : toks[i] # NL}, 1)

\* The number of newlines between the k-th printed line of a text and the next
\* printed line (or the end of the text): one more than the number of blank
\* lines that follow the k-th printed line.
NewlinesAfter(toks, k) ==
    LET at == {i \in DOMAIN toks : toks[i] # NL}
        Nth(n) == CHOOSE i \in at : Cardinality({j \in at : j <= i}) = n
    IN  (IF k < Cardinality(at) THEN Nth(k + 1) ELSE Len(toks) + 1) - Nth(k) - 1

\* The text appendHeader builds before it collapses newlines.
Headed == JoinLines(<<LMarker, LTimestamp(clock), LBlank>> \o content)

\* C17: a non-empty content comes back with the marker line and the timestamp
\* line first, its printed lines kept in order, and one blank line wherever
\* three or more blank lines followed a printed line; an empty content comes
\* back as the empty text, with no header.
C17_HeaderAndBlankLines ==
    pc = "composed" =>
        IF JoinLines(content) = <<>> THEN document = <<>>
        ELSE /\ Len(document) >= 2
             /\ document[1] = LMarker
             /\ document[2] = LTimestamp(clock)
             /\ Printed(JoinLines(document)) = Printed(Headed)
             /\ \A k \in 1..Len(Printed(Headed)) :
                    NewlinesAfter(Headed, k) >= 4 => NewlinesAfter(JoinLines(document), k) = 2

\* A headed document whose content held three blank lines in a row between two
\* printed lines.
C17_Witness ==
    /\ pc = "composed"
    /\ document # <<>>
    /\ \E i \in 2..(Len(content) - 3) :
           /\ content[i - 1] # LBlank
           /\ content[i] = LBlank /\ content[i + 1] = LBlank /\ content[i + 2] = LBlank
           /\ content[i + 3] # LBlank

(***************************************************************************)
(* Claims about references and units in the variable documents             *)
(***************************************************************************)
\* The references the claim allows for alias a: the permissive name of a
\* variable with the alias' id, or of the raw id when no variable has it.
ClaimedReferences(a) ==
    LET targets == {k \in DOMAIN payload.variables :
                        payload.variables[k].id # 0 /\ payload.variables[k].id = a.id}
    IN  IF targets = {} THEN {RVar(toCssVarName(IdText(a.id)))}
        ELSE {RVar(toCssVarName(payload.variables[k].name)) : k \in targets}

\* The document of mode m of collection c.
DocumentKeyOf(c, m) ==
    IF Len(c.modes) >= 2 THEN c.name \o <<"-">> \o c.modes[m].name ELSE c.name

\* The variables of collection c whose value under the mode of id mid is an
\* alias.
AliasedUnder(c, mid) ==
    {j \in DOMAIN payload.variables :
        /\ payload.variables[j].variableCollectionId = c.id
        /\ isAlias(ModeValue(payload.variables[j].valuesByMode, mid))}

\* C18: with preferTokenRefs true (or not given), every variable of an included
\* collection whose value for a document's mode is an alias is declared in
\* that document as a reference to the alias' target, and every declaration
\* under its name is such a reference.
C18_AliasesStayReferences ==
    (Generated /\ result.status = "returned" /\ RunOptions.preferTokenRefs) =>
        \A k \in DOMAIN payload.collections :
            LET c == payload.collections[k]
            IN  \A m \in DOMAIN c.modes :
                    (IsIncluded(c) /\ SoleOwner(k, DocumentKeyOf(c, m))) =>
                        \A j \in AliasedUnder(c, c.modes[m].modeId) :
                            LET v == payload.variables[j]
                                a == ModeValue(v.valuesByMode, c.modes[m].modeId)
                            IN  /\ DocumentKeyOf(c, m) \in DocumentKeys
                                /\ DeclaredIn(DocumentKeyOf(c, m), v) # {}
                                /\ \A line \in DeclaredIn(DocumentKeyOf(c, m), v) :
                                       \/ line.val \in ClaimedReferences(a)
                                       \/ \E i \in DOMAIN payload.variables :
                                              /\ i # j
                                              /\ toCssVarName(payload.variables[i].name)
                                                     = toCssVarName(v.name)

\* A run that prefers references and declares one alias by its target's name
\* and another by the raw id of a target that does not exist.
C18_Witness ==
    /\ Generated /\ result.status = "returned" /\ RunOptions.preferTokenRefs
    /\ \E k \in DOMAIN payload.collections :
           LET c == payload.collections[k]
           IN  /\ IsIncluded(c) /\ Len(c.modes) >= 1
               /\ \E i \in AliasedUnder(c, c.modes[1].modeId) :
                      \E j \in AliasedUnder(c, c.modes[1].modeId) :
                          /\ payload.variables[i].resolvedType = "STRING"
                          /\ ModeValue(payload.variables[i].valuesByMode, c.modes[1].modeId)
                                 = Alias(3)
                          /\ ModeValue(payload.variables[j].valuesByMode, c.modes[1].modeId)
                                 = Alias(1)
                          /\ DeclaredIn(DocumentKeyOf(c, 1), payload.variables[j])
                                 = {LDecl(toCssVarName(payload.variables[j].name),
                                          RVar(toCssVarName(payload.variables[1].name)))}

(***************************************************************************)
(* Claims about the font-family index                                      *)
(***************************************************************************)
\* The font-family declarations of the styles document, in order.
FontFamilyProps ==
    Pick(result.styles,
         {i \in DOMAIN result.styles :
             result.styles[i].k = "prop" /\ result.styles[i].name = CssProperty.fontFamily}, 1)

\* The index after the name-based pass.
NamedFamilies == buildFamilyToVarMap(payload)

\* Every text style names its family literally and binds no family variable.
FamiliesAreLiteral ==
    \A k \in DOMAIN payload.textStyles :
        /\ LiteralFamily(payload.textStyles[k]) # Undefined
        /\ ~isAlias(payload.textStyles[k].boundVariables.fontFamily)

\* C19: a text style whose family the name-based pass mapped to a slot is
\* declared with that slot's variable, whatever the frequency ranking is; and
\* when the name-based pass mapped two families or more, a style of any other
\* family is declared literally.
C19_FallbackKeepsExplicitMappings ==
    (/\ Generated /\ result.status = "returned"
     /\ payload.textStyles # <<>> /\ FamiliesAreLiteral) =>
        LET Kept(named, props) ==
                /\ Len(props) = Len(payload.textStyles)
                /\ \A k \in DOMAIN payload.textStyles :
                       LET norm == normalizeFamilyName(LiteralFamily(payload.textStyles[k]))
                       IN  /\ MapHas(named, norm) => props[k].val = RVar(MapGet(named, norm))
                           /\ (Cardinality(MapKeys(named)) >= 2 /\ ~MapHas(named, norm))
                                  => props[k].val.t = "text"
        IN  Kept(NamedFamilies, FontFamilyProps)

\* The only family variable is the secondary one and holds the family of the
\* first and most frequent text style, which the fallback would rank first;
\* the second style's family is not mapped and takes the free slot.
C19_Witness ==
    /\ Generated /\ result.status = "returned"
    /\ Len(payload.textStyles) = 2 /\ FamiliesAreLiteral
    /\ LiteralFamily(payload.textStyles[1]) # LiteralFamily(payload.textStyles[2])
    /\ MapKeys(NamedFamilies) = {normalizeFamilyName(LiteralFamily(payload.textStyles[1]))}
    /\ LET Both(props) == /\ props[1].val = RVar(Word.fontFamilySecondary)
                          /\ props[2].val = RVar(Word.fontFamilySecondary)
       IN  Both(FontFamilyProps)

(***************************************************************************)
(* Claims about the unit of number variables                               *)
(***************************************************************************)
\* C20: a number variable whose name does not read as a font weight is
\* declared with the configured number unit (px when none is given), whatever
\* the rest of its name is.
C20_NumbersCarryTheUnit ==
    (Generated /\ result.status = "returned" /\ RunOptions.numberUnit # "none") =>
        \A k \in DOMAIN payload.variables :
            LET v == payload.variables[k]
            IN  (v.resolvedType \in {"NUMBER", "FLOAT", "INT"}
                 /\ ~LooksLikeFontWeight(v.name)) =>
                    \A line \in DeclaredFor(v) :
                        line.val.t = "number" => line.val.unit = RunOptions.numberUnit

ClaimedLayer(paints) ==
    LET shown == {i \in DOMAIN paints : paints[i].visible # "false"}
    IN  IF shown = {} THEN paints[1]
        ELSE paints[CHOOSE i \in shown : \A j \in shown : i <= j]

\* The declarations of the styles document.
StyleDeclarations == {line \in Range(result.styles) : line.k = "decl"}

\* C23: the one paint style of the payload is declared from its first layer
\* that is not hidden (the first when all are hidden); a solid layer gives one
\* colour property, and an opacity property exactly when its opacity is a
\* number other than 1 or an alias, bound or not.
C23_PaintLayerAndOpacity ==
    (/\ Generated /\ result.status = "returned"
     /\ Len(payload.paintStyles) = 1 /\ payload.effectStyles = <<>>
     /\ payload.paintStyles[1].paints # <<>>) =>
        LET nm == kebab(TokenName(payload.paintStyles[1].name))
            layer == ClaimedLayer(payload.paintStyles[1].paints)
            referred ==
                \/ layer.opacity.t = "number" /\ layer.opacity.n # 100
                \/ isAlias(layer.opacity)
                \/ isAlias(layer.boundVariables.opacity)
        IN  layer.type = "SOLID" =>
                /\ {line \in StyleDeclarations : line.name = nm}
                       = {LDecl(nm, RefOr(layer.boundVariables.color, layer.color,
                                          BuildIdToName(payload.variables),
                                          RRgba(Round1(layer.color.n))))}
                /\ referred <=> \E line \in StyleDeclarations :
                                    line.name = nm \o Word.opacitySuffix
                /\ \A line \in StyleDeclarations :
                       line.name \in {nm, nm \o Word.opacitySuffix}

\* The first layer is hidden and the second shown: the second layer's colour
\* and opacity are declared.
C23_Witness ==
    /\ Generated /\ result.status = "returned"
    /\ Len(payload.paintStyles) = 1
    /\ Len(payload.paintStyles[1].paints) = 2
    /\ payload.paintStyles[1].paints[1].visible = "false"
    /\ payload.paintStyles[1].paints[1].opacity = Num(100)
    /\ payload.paintStyles[1].paints[2].visible = "true"
    /\ \E line \in StyleDeclarations : line.val = RRgba(50)
    /\ \E line \in StyleDeclarations : line.val = RNumber(30, "")


(***************************************************************************)
(* Claims about weight references                                          *)
(***************************************************************************)
\* The variables whose entry the font-weight index holds under key: the last
\* variable of the payload that sets it.
IndexedUnder(key) ==
    {k \in DOMAIN payload.variables :
        /\ MapHas(buildWeightVarIndex(<<payload.variables[k]>>), key)
        /\ \A j \in (k + 1)..Len(payload.variables) :
               ~MapHas(buildWeightVarIndex(<<payload.variables[j]>>), key)}

\* The text styles whose weight is looked up in the index: no bound and no
\* value-level reference, and a label.
LabelledStyles ==
    {s \in DOMAIN payload.textStyles :
        /\ ~isAlias(payload.textStyles[s].boundVariables.fontWeight)
        /\ ~isAlias(payload.textStyles[s].fontWeight)
        /\ WeightLabel(payload.textStyles[s]).t = "string"}

\* C25: when a text style's font-weight is var(--X) taken from the font-weight
\* index for variable V, --X is the name under which the variables emitter
\* declares V, whatever characters the name of V has.
C25_WeightReferenceIsDeclaredName ==
    (Generated /\ result.status = "returned" /\ Len(payload.textStyles) = 1) =>
        \A s \in LabelledStyles :
            \A k \in IndexedUnder(normalizeWeightKey(WeightLabel(payload.textStyles[s]).s)) :
                /\ FontWeightProps
                       = {LProp(CssProperty.fontWeight,
                                RVar(toCssVarName(payload.variables[k].name)))}
                /\ DeclaredFor(payload.variables[k]) # {}

(***************************************************************************)
(* Claims about the documents of collections                               *)
(***************************************************************************)
\* C26: no document is lost to a name collision: the (collection, mode) pairs
\* that produce content are written under pairwise distinct keys of
\* result.collections, so no write replaces the document of another pair.
C26_NoDocumentOverwritten ==
    (Generated /\ result.status = "returned") =>
        \A i \in DOMAIN result.collections : \A j \in DOMAIN result.collections :
            i # j => result.collections[i].key # result.collections[j].key

\* The declarations decls name variables of own only, each at most once and in
\* the order of own.
DeclaredInOrder(decls, own) ==
    \E f \in [DOMAIN decls -> DOMAIN own] :
        /\ \A i \in DOMAIN decls : decls[i].name = toCssVarName(own[f[i]].name)
        /\ \A i \in DOMAIN decls : \A j \in DOMAIN decls : i < j => f[i] < f[j]

\* C27: every document of result.collections goes by a name of a collection C
\* and declares only variables whose variableCollectionId is C, each at most
\* once and in payload order; a variable with no collection id is declared in
\* no document.
C27_CollectionIsolation ==
    (Generated /\ result.status = "returned") =>
        /\ \A w \in DOMAIN result.collections :
               \E k \in DOMAIN payload.collections :
                   /\ result.collections[w].key \in DocumentNames(payload.collections[k])
                   /\ DeclaredInOrder(DeclarationsOf(result.collections[w].val),
                                      VarsOfCollection(payload.variables,
                                                       payload.collections[k].id))
        /\ \A k \in DOMAIN payload.variables :
               payload.variables[k].variableCollectionId = ""
                   => DeclaredFor(payload.variables[k]) = {}

\* The text styles that carry a number as fontWeight and no bound reference.
NumericWeightStyles ==
    {s \in DOMAIN payload.textStyles :
        /\ payload.textStyles[s].fontWeight.t = "number"
        /\ ~isAlias(payload.textStyles[s].boundVariables.fontWeight)}

\* C28: a text style with a numeric fontWeight and no weight reference gets a
\* font-weight declaration with that number, whatever its fontName.style is.
C28_NumericWeightDeclared ==
    (Generated /\ result.status = "returned" /\ Len(payload.textStyles) = 1) =>
        \A s \in NumericWeightStyles :
            FontWeightProps
                = {LProp(CssProperty.fontWeight,
                         RNumber(payload.textStyles[s].fontWeight.n, ""))}

(***************************************************************************)
(* Claims about the plugin UI                                              *)
(***************************************************************************)
\* No update is queued and no effect is scheduled.
Settled == updates = <<>> /\ ~effectPending

\* C24: in the UI, after any sequence of styles-data messages, include-flag
\* toggles and collection toggles, once nothing is pending the displayed
\* cssOutput is what generateCSS returns for the data, the current options and
\* the currently checked collections: no earlier result remains.
C24_OutputFollowsState ==
    (Settled /\ data # <<>>)
        => cssOutput = generateCSS(data[1], EffectOptions(options, selectedCollections), clock)

\* Data was loaded, a flag and a collection were toggled afterwards, and every
\* update was rendered: one collection of two is checked.
C24_Witness ==
    /\ Settled /\ data # <<>>
    /\ options # InitialOptions
    /\ Len(data[1].collections) = 2
    /\ Len(SelectedIds(selectedCollections)) = 1
    /\ cssOutput.status = "returned"
    /\ MapKeys(cssOutput.collections) = {<<"A">>}

====
